---- MODULE Spec2Model ----
(***************************************************************************)
(* Neo4j graph dashboard: the fetch of a raw payload, the build of the     *)
(* in-memory graph (GraphPlotter), the application life cycle              *)
(* (Neo4jGraphApp.run_server.create_app), the free-text node search        *)
(* (GraphPlotter.highlight_nodes) and the in-memory pattern matcher of     *)
(* "Project files/app.py".                                                 *)
(*                                                                         *)
(* Python values are tagged records: None, StrV(chars), IntV(n), ...  A str *)
(* a sequence of one-character strings, so that lower() and find() are     *)
(* computed.  A dict is Dict: its keys in insertion order and its values.  *)
(***************************************************************************)
EXTENDS Integers, Sequences, FiniteSets, TLC

VARIABLES
    connection,        \* Neo4jGraphApp.connection
    graph_data,        \* Neo4jGraphApp.graph_data, or the script's global graph_data
    graph_plotter,     \* Neo4jGraphApp.graph_plotter: 0 (None) or the id of a plotter
    graph_renderer,    \* Neo4jGraphApp.graph_renderer: 0 (None) or the id of its plotter
    search_interface,  \* Neo4jGraphApp.search_interface
    filter_interface,  \* Neo4jGraphApp.filter_interface
    plotters,          \* the GraphPlotter objects that are still referenced, by id
    docs,              \* per create_app call (browser session): what it added as root
    widgets,           \* the search controls of the newest document that has a layout
    fetched,           \* the raw payload of the last successful fetch
    applied,           \* per plotter: the search terms applied since the last reset
    pattern,           \* result of the script's last pattern search
    explorer,          \* the PatternPropertyExplorer of the last saved pattern page
    evaluated,         \* the last _evaluate_filter call: value, condition, result
    shown,             \* the name and properties columns made for one node
    start,             \* the production start-up process (start.main)
    filters,           \* a GraphFilterInterface with the widgets of its controls
    neo4j              \* the Neo4jConnection objects of the process and the one it holds

vars == <<connection, graph_data, graph_plotter, graph_renderer, search_interface,
          filter_interface, plotters, docs, widgets, fetched, applied, pattern,
          explorer, evaluated, shown, start, filters, neo4j>>

(***************************************************************************)
(* Bounds of the model.                                                    *)
(***************************************************************************)
MaxNodes == 2
MaxRels == 2
MaxSessions == 2
MaxSearches == 2

(***************************************************************************)
(* Python values.                                                          *)
(***************************************************************************)
None == [kind |-> "none"]
StrV(cs) == [kind |-> "str", chars |-> cs]
IntV(n) == [kind |-> "int", num |-> n]
\* a float, held exactly as its number of hundredths
FloatV(c) == [kind |-> "float", centi |-> c]
BoolV(b) == [kind |-> "bool", val |-> b]
\* a list of str
ListV(items) == [kind |-> "list", items |-> items]

IsNone(v) == v = None

Person == <<"P", "e", "r", "s", "o", "n">>
Movie == <<"M", "o", "v", "i", "e">>
Unknown == <<"U", "n", "k", "n", "o", "w", "n">>
ActedIn == <<"A", "C", "T", "E", "D", "_", "I", "N">>
Directed == <<"D", "I", "R", "E", "C", "T", "E", "D">>

EmptyMap == [k \in {} |-> None]

\* dict.update(other) on maps: the keys of other win.
MapUpdate(d, other) ==
    [k \in DOMAIN d \cup DOMAIN other |-> IF k \in DOMAIN other THEN other[k] ELSE d[k]]

\* An insertion-ordered dict.
EmptyDict == [keys |-> <<>>, val |-> EmptyMap]

DictHas(d, k) == k \in DOMAIN d.val

\* d[k] = v: a new key goes last, an old key keeps its place and takes the value.
DictSet(d, k, v) ==
    IF DictHas(d, k)
    THEN [d EXCEPT !.val = [x \in DOMAIN d.val |-> IF x = k THEN v ELSE d.val[x]]]
    ELSE [keys |-> Append(d.keys, k),
          val |-> [x \in DOMAIN d.val \cup {k} |-> IF x = k THEN v ELSE d.val[x]]]

Range(s) == {s[i] : i \in 1..Len(s)}

SeqsUpTo(S, n) == UNION {[1..m -> S] : m \in 0..n}

(***************************************************************************)
(* The raw payload: what the queries of GraphDataFetcher return.           *)
(***************************************************************************)
NodeIds == {"n1", "n2"}
\* "n9", an end of some relationships, is the id of no fetched node.
RelIds == {"r1", "r2"}
LabelLists == {<<>>, <<Person>>, <<Movie>>}
RelTypes == {ActedIn, Directed}

RawNodes == [id : NodeIds, labels : LabelLists, properties : {EmptyMap}]
RawRels ==
    [id : RelIds, type : RelTypes, properties : {EmptyMap},
     start_node : {"n1"}, end_node : {"n2", "n9"}]

Payloads ==
    [nodes : SeqsUpTo(RawNodes, MaxNodes), relationships : SeqsUpTo(RawRels, MaxRels)]

(***************************************************************************)
(* GraphDataFetcher.get_all_graph_data                                     *)
(***************************************************************************)
RECURSIVE ProcessNodes(_, _)
ProcessNodes(recs, node_data) ==
    IF recs = <<>> THEN node_data
    ELSE ProcessNodes(Tail(recs),
            DictSet(node_data, Head(recs).id,
                    [labels |-> Head(recs).labels, properties |-> Head(recs).properties]))

RECURSIVE ProcessRels(_, _)
ProcessRels(recs, rel_data) ==
    IF recs = <<>> THEN rel_data
    ELSE ProcessRels(Tail(recs),
            DictSet(rel_data, Head(recs).id,
                    [type |-> Head(recs).type, properties |-> Head(recs).properties,
                     start_node |-> Head(recs).start_node,
                     end_node |-> Head(recs).end_node]))

\* nodes_result, relationships_result: None when execute_query failed, else the
\* record list of the one row.  gen is the identity of the returned dict.
get_all_graph_data(nodes_result, relationships_result, gen) ==
    IF IsNone(nodes_result) \/ IsNone(relationships_result) THEN None
    ELSE [kind |-> "dict", gen |-> gen,
          nodes |-> ProcessNodes(nodes_result.rows, EmptyDict),
          relationships |-> ProcessRels(relationships_result.rows, EmptyDict)]

Rows(rs) == [kind |-> "rows", rows |-> rs]

(***************************************************************************)
(* GraphDataFetcher.get_limited_graph_data: one query, null entries        *)
(* (an id that is None) are dropped.                                       *)
(***************************************************************************)
RECURSIVE DropNullIds(_)
DropNullIds(recs) ==
    IF recs = <<>> THEN <<>>
    ELSE IF Head(recs).id = "" THEN DropNullIds(Tail(recs))
    ELSE <<Head(recs)>> \o DropNullIds(Tail(recs))

get_limited_graph_data(result, gen) ==
    IF IsNone(result) THEN None
    ELSE [kind |-> "dict", gen |-> gen,
          nodes |-> ProcessNodes(DropNullIds(result.nodes), EmptyDict),
          relationships |-> ProcessRels(DropNullIds(result.relationships), EmptyDict)]

(***************************************************************************)
(* Text.                                                                   *)
(***************************************************************************)
UpperChars == <<"A", "B", "C", "D", "E", "F", "G", "H", "I", "J", "K", "L", "M",
                "N", "O", "P", "Q", "R", "S", "T", "U", "V", "W", "X", "Y", "Z">>
LowerChars == <<"a", "b", "c", "d", "e", "f", "g", "h", "i", "j", "k", "l", "m",
                "n", "o", "p", "q", "r", "s", "t", "u", "v", "w", "x", "y", "z">>

LowerChar(c) ==
    IF \E i \in 1..Len(UpperChars) : UpperChars[i] = c
    THEN LowerChars[CHOOSE i \in 1..Len(UpperChars) : UpperChars[i] = c]
    ELSE c

\* a lower() that leaves the text as it is
LowerKept(cs) == cs

\* str.lower()
Lower(cs) == [i \in 1..Len(cs) |-> LowerChar(cs[i])]

\* s.find(t) >= 0
Contains(s, t) ==
    \E i \in 0..(Len(s) - Len(t)) : SubSeq(s, i + 1, i + Len(t)) = t

\* s.startswith(p)
StartsWith(s, p) == Len(p) <= Len(s) /\ SubSeq(s, 1, Len(p)) = p

Digits == <<"0", "1", "2", "3", "4", "5", "6", "7", "8", "9">>

RECURSIVE NatToChars(_)
NatToChars(n) ==
    IF n < 10 THEN <<Digits[n + 1]>>
    ELSE NatToChars(n \div 10) \o <<Digits[(n % 10) + 1]>>

IntToChars(n) == IF n < 0 THEN <<"-">> \o NatToChars(0 - n) ELSE NatToChars(n)

\* repr of a float of c hundredths, c >= 0: 850 is 8.5, 800 is 8.0, 825 is 8.25
FloatToChars(c) ==
    NatToChars(c \div 100) \o <<".">> \o
    (IF c % 10 = 0 THEN <<Digits[((c % 100) \div 10) + 1]>>
     ELSE <<Digits[((c % 100) \div 10) + 1], Digits[(c % 10) + 1]>>)

RECURSIVE ListToChars(_)
ListToChars(items) ==
    IF items = <<>> THEN <<>>
    ELSE <<"'">> \o Head(items) \o <<"'">> \o
         (IF Len(items) > 1 THEN <<",", " ">> ELSE <<>>) \o ListToChars(Tail(items))

\* str(value)
PyStr(v) ==
    CASE v.kind = "str" -> v.chars
      [] v.kind = "int" -> IntToChars(v.num)
      [] v.kind = "float" ->
            IF v.centi < 0 THEN <<"-">> \o FloatToChars(0 - v.centi)
            ELSE FloatToChars(v.centi)
      [] v.kind = "bool" -> IF v.val THEN <<"T", "r", "u", "e">>
                            ELSE <<"F", "a", "l", "s", "e">>
      [] v.kind = "list" -> <<"[">> \o ListToChars(v.items) \o <<"]">>
      [] v.kind = "none" -> <<"N", "o", "n", "e">>

\* bool(value)
Truthy(v) ==
    CASE v.kind = "str" -> v.chars # <<>>
      [] v.kind = "int" -> v.num # 0
      [] v.kind = "float" -> v.centi # 0
      [] v.kind = "bool" -> v.val
      [] v.kind = "list" -> v.items # <<>>
      [] v.kind = "none" -> FALSE

(***************************************************************************)
(* networkx.DiGraph: nodes (id -> attributes) and edges (<<u, v>> ->        *)
(* attributes), both in insertion order.  One edge per ordered pair.       *)
(***************************************************************************)
EmptyGraph == [nodes |-> EmptyDict, edges |-> EmptyDict]

\* DiGraph.add_node(n, **attrs): a known node has its attributes updated.
add_node(G, n, attrs) ==
    [G EXCEPT !.nodes =
        DictSet(G.nodes, n,
                IF DictHas(G.nodes, n) THEN MapUpdate(G.nodes.val[n], attrs) ELSE attrs)]

\* DiGraph.add_edge(u, v, **attrs): missing endpoints are added as nodes without
\* attributes; a known edge <<u, v>> has its attributes updated.
add_edge(G, u, v, attrs) ==
    LET G1 == IF DictHas(G.nodes, u) THEN G ELSE add_node(G, u, EmptyMap)
        G2 == IF DictHas(G1.nodes, v) THEN G1 ELSE add_node(G1, v, EmptyMap)
    IN  [G2 EXCEPT !.edges =
            DictSet(G2.edges, <<u, v>>,
                    IF DictHas(G2.edges, <<u, v>>)
                    THEN MapUpdate(G2.edges.val[<<u, v>>], attrs) ELSE attrs)]

\* node_info["labels"][0] if node_info["labels"] else "Unknown"
PrimaryType(node_info) ==
    IF node_info.labels # <<>> THEN node_info.labels[1] ELSE Unknown

\* the node_props of one node: label and type, then the node's own properties
NodeProps(node_info) ==
    MapUpdate([label |-> StrV(PrimaryType(node_info)), type |-> StrV(PrimaryType(node_info))],
              node_info.properties)

RECURSIVE AddNodes(_, _, _)
AddNodes(G, keys, nodes) ==
    IF keys = <<>> THEN G
    ELSE AddNodes(add_node(G, Head(keys), NodeProps(nodes.val[Head(keys)])),
                  Tail(keys), nodes)

\* add_edge(start, end, type=..., **properties) is a TypeError when the
\* properties hold a key "type" (two values for one keyword).
EdgeCallRaises(rel_info) == "type" \in DOMAIN rel_info.properties

RECURSIVE AddRels(_, _, _)
AddRels(G, keys, rels) ==
    IF keys = <<>> THEN G
    ELSE LET rel_info == rels.val[Head(keys)]
         IN  AddRels(add_edge(G, rel_info.start_node, rel_info.end_node,
                              MapUpdate([type |-> StrV(rel_info.type)], rel_info.properties)),
                     Tail(keys), rels)

\* GraphPlotter._create_networkx_graph: the graph, or raised (an exception left it)
CreateNetworkxGraph(gd) ==
    IF \E k \in DOMAIN gd.relationships.val : EdgeCallRaises(gd.relationships.val[k])
    THEN [raised |-> TRUE, G |-> EmptyGraph]
    ELSE [raised |-> FALSE,
          G |-> AddRels(AddNodes(EmptyGraph, gd.nodes.keys, gd.nodes),
                        gd.relationships.keys, gd.relationships)]

(***************************************************************************)
(* GraphPlotter._get_node_styling                                          *)
(***************************************************************************)
Actor == <<"A", "c", "t", "o", "r">>
Director == <<"D", "i", "r", "e", "c", "t", "o", "r">>
Genre == <<"G", "e", "n", "r", "e">>

Gold == "#FFD700"

\* G.nodes[node].get("type", "Unknown")
NodeTypeOf(G, n) ==
    IF "type" \in DOMAIN G.nodes.val[n] THEN G.nodes.val[n]["type"] ELSE StrV(Unknown)

\* node_type.startswith(...) is an AttributeError on a value that is no str and
\* equals neither "Movie" nor "Person".
StylingRaises(G) ==
    \E n \in DOMAIN G.nodes.val : NodeTypeOf(G, n).kind # "str"

TypeColor(t) ==
    IF t = StrV(Movie) THEN "#3182bd"
    ELSE IF t = StrV(Person) THEN "#31a354"
    ELSE IF StartsWith(t.chars, Actor) THEN "#31a354"
    ELSE IF t = StrV(Director) THEN "#e6550d"
    ELSE IF t = StrV(Genre) THEN "#e6550d"
    ELSE "#756bb1"

TypeSize(t) ==
    IF t = StrV(Movie) THEN 10
    ELSE IF t = StrV(Person) THEN 8
    ELSE IF StartsWith(t.chars, Actor) THEN 8
    ELSE IF t = StrV(Director) THEN 12
    ELSE IF t = StrV(Genre) THEN 6
    ELSE 5

\* the colour list and the size list, in the order of G.nodes()
NodeColors(G) == [i \in 1..Len(G.nodes.keys) |-> TypeColor(NodeTypeOf(G, G.nodes.keys[i]))]
NodeSizes(G) == [i \in 1..Len(G.nodes.keys) |-> TypeSize(NodeTypeOf(G, G.nodes.keys[i]))]

(***************************************************************************)
(* GraphPlotter.highlight_nodes / reset_node_colors.  A plotter is          *)
(* [graph_data, G, graph_renderer]; graph_renderer is None or the           *)
(* renderer's colour column.                                               *)
(***************************************************************************)
\* isinstance(value, (str, int, float)); a bool is an int
Searchable(v) == v.kind \in {"str", "int", "float", "bool"}

\* any(str(value).lower().find(search_term) >= 0 for the str/int/float values)
Found(node_data, term) ==
    \E k \in DOMAIN node_data :
        Searchable(node_data[k]) /\ Contains(Lower(PyStr(node_data[k])), term)

\* the list matching_nodes that highlight_nodes returns
MatchingNodes(G, search_term) ==
    SelectSeq(G.nodes.keys, LAMBDA n : Found(G.nodes.val[n], Lower(search_term)))

HighlightColors(G, search_term) ==
    [i \in 1..Len(G.nodes.keys) |->
        IF Found(G.nodes.val[G.nodes.keys[i]], Lower(search_term))
        THEN Gold ELSE NodeColors(G)[i]]

\* a highlight_nodes that also records the search in the attributes of the nodes
highlight_nodes_marking(plotter, search_term) ==
    IF IsNone(plotter.graph_renderer) THEN plotter
    ELSE [plotter EXCEPT
            !.graph_renderer =
                [kind |-> "renderer", color |-> HighlightColors(plotter.G, search_term)],
            !.G.nodes.val =
                [n \in DOMAIN @ |-> MapUpdate(@[n], [highlighted |-> StrV(search_term)])]]

\* the plotter after highlight_nodes(search_term)
highlight_nodes(plotter, search_term) ==
    IF IsNone(plotter.graph_renderer) THEN plotter
    ELSE [plotter EXCEPT !.graph_renderer =
            [kind |-> "renderer", color |-> HighlightColors(plotter.G, search_term)]]

\* the plotter after reset_node_colors()
reset_node_colors(plotter) ==
    IF IsNone(plotter.graph_renderer) THEN plotter
    ELSE [plotter EXCEPT !.graph_renderer =
            [kind |-> "renderer", color |-> NodeColors(plotter.G)]]

(***************************************************************************)
(* Neo4jGraphApp (src/app.py).  The objects made by the n-th create_app     *)
(* call carry the id n.                                                    *)
(***************************************************************************)
\* How initialize_connection ends: no NEO4J_PASSWORD, the driver could not be
\* made, the test query returned nothing, or success.
ConnOutcomes == {"no_password", "no_driver", "test_failed", "ok"}

\* Neo4jGraphApp.initialize_connection: self.connection afterwards
initialize_connection(conn) ==
    IF conn = "no_password" THEN connection
    ELSE [kind |-> "conn", driver |-> IF conn = "no_driver" THEN "none" ELSE "open"]

\* Neo4jGraphApp.load_data(use_limited): self.graph_data afterwards (the value the
\* fetcher returned, None included)
load_data(use_limited, nodes_ok, rels_ok, p, id) ==
    IF use_limited
    THEN get_limited_graph_data(
            IF nodes_ok /\ rels_ok
            THEN [kind |-> "rows", nodes |-> p.nodes, relationships |-> p.relationships]
            ELSE None, id)
    ELSE get_all_graph_data(IF nodes_ok THEN Rows(p.nodes) ELSE None,
                            IF rels_ok THEN Rows(p.relationships) ELSE None, id)

\* a GraphPlotter: its graph_data, its graph G and its graph_renderer
NewPlotter(gd, G, color) ==
    [kind |-> "plotter", graph_data |-> gd, G |-> G,
     graph_renderer |-> [kind |-> "renderer", color |-> color]]

\* Neo4jGraphApp.create_visualization with self.graph_data = gd: the fields it
\* leaves, the plotter object it made (None if none) and its return value ok.
create_visualization(gd, id) ==
    LET kept == [graph_plotter |-> graph_plotter, graph_renderer |-> graph_renderer,
                 search_interface |-> search_interface,
                 filter_interface |-> filter_interface,
                 plotter |-> None, ok |-> FALSE]
        built == CreateNetworkxGraph(gd)
    IN  IF IsNone(gd) THEN kept
        ELSE IF built.raised THEN kept
        ELSE IF StylingRaises(built.G)
        THEN [kept EXCEPT !.graph_plotter = id, !.plotter = NewPlotter(gd, built.G, <<>>)]
        ELSE [graph_plotter |-> id, graph_renderer |-> id,
              search_interface |-> [kind |-> "search", gen |-> gd.gen, plotter |-> id],
              filter_interface |->
                  [kind |-> "filter", gen |-> gd.gen, plotter |-> id, renderer |-> id,
                   original_colors |-> NodeColors(built.G),
                   original_sizes |-> NodeSizes(built.G),
                   active_filters |-> EmptyMap],
              plotter |-> NewPlotter(gd, built.G, NodeColors(built.G)), ok |-> TRUE]

\* the types of the edges: edge[2].get("type", "Unknown")
EdgeTypeOf(G, e) ==
    IF "type" \in DOMAIN G.edges.val[e] THEN G.edges.val[e]["type"] ELSE StrV(Unknown)

\* GraphPlotter.get_graph_statistics: {} for a graph without nodes (not self.G),
\* else the totals and the two histograms
get_graph_statistics(G) ==
    IF Len(G.nodes.keys) = 0 THEN [kind |-> "dict", keys |-> {}]
    ELSE [kind |-> "dict",
          keys |-> {"total_nodes", "total_edges", "node_types", "edge_types"},
          total_nodes |-> Len(G.nodes.keys),
          total_edges |-> Len(G.edges.keys),
          node_types |->
              [t \in {NodeTypeOf(G, n) : n \in Range(G.nodes.keys)} |->
                  Cardinality({n \in Range(G.nodes.keys) : NodeTypeOf(G, n) = t})],
          edge_types |->
              [t \in {EdgeTypeOf(G, e) : e \in Range(G.edges.keys)} |->
                  Cardinality({e \in Range(G.edges.keys) : EdgeTypeOf(G, e) = t})]]

\* Neo4jGraphApp.create_layout after a successful create_visualization:
\* get_graph_statistics returns {} for a graph without nodes (not self.G), and
\* _create_statistics_panel's format(**stats) then raises KeyError.
create_layout(vis) ==
    IF vis.graph_renderer = 0 \/ IsNone(vis.search_interface) \/ IsNone(vis.filter_interface)
    THEN "LayoutError"
    ELSE IF "total_nodes" \notin get_graph_statistics(vis.plotter.G).keys THEN "raised"
    ELSE "layout"

Restrict(f, S) == [x \in DOMAIN f \cap S |-> f[x]]

\* one run of a start-up handler: create_app (static = FALSE) or
\* export_static_html (static = TRUE)
Startup(static, conn, nodes_ok, rels_ok, p) ==
    \E gd \in {load_data(static, nodes_ok, rels_ok, p, Len(docs) + 1)} :
    \E vis \in {create_visualization(gd, Len(docs) + 1)} :
    LET id == Len(docs) + 1
        root == IF conn # "ok" THEN "ConnectionError"
                ELSE IF IsNone(gd) THEN "DataLoadingError"
                ELSE IF ~vis.ok THEN "VisualizationError"
                ELSE IF static THEN "static"
                ELSE create_layout(vis)
        loaded == conn = "ok" /\ ~IsNone(gd)
        newWidgets == IF root = "layout"
                      THEN [kind |-> "widgets", plotter |-> id, search_value |-> <<>>]
                      ELSE widgets
        made == IF loaded /\ ~IsNone(vis.plotter) THEN (id :> vis.plotter) ELSE EmptyMap
        live == {IF loaded THEN vis.graph_plotter ELSE graph_plotter,
                 IF IsNone(newWidgets) THEN 0 ELSE newWidgets.plotter,
                 IF ~loaded \/ IsNone(vis.search_interface) THEN
                    (IF IsNone(search_interface) THEN 0 ELSE search_interface.plotter)
                 ELSE vis.search_interface.plotter}
        after == initialize_connection(conn)
    IN  /\ connection' = IF static /\ ~IsNone(after) /\ after.driver = "open"
                         THEN [after EXCEPT !.driver = "closed"] ELSE after
        /\ graph_data' = IF conn = "ok" THEN gd ELSE graph_data
        /\ graph_plotter' = IF loaded THEN vis.graph_plotter ELSE graph_plotter
        /\ graph_renderer' = IF loaded THEN vis.graph_renderer ELSE graph_renderer
        /\ search_interface' = IF loaded THEN vis.search_interface ELSE search_interface
        /\ filter_interface' = IF loaded THEN vis.filter_interface ELSE filter_interface
        /\ plotters' = Restrict(made @@ plotters, live)
        /\ applied' = Restrict([x \in DOMAIN made |-> <<>>] @@ applied, live)
        /\ docs' = Append(docs, root)
        /\ widgets' = newWidgets
        /\ fetched' = IF loaded THEN p ELSE fetched
        /\ UNCHANGED <<pattern, explorer, evaluated, shown, start, filters, neo4j>>

(***************************************************************************)
(* Payloads of the life-cycle specification.                               *)
(***************************************************************************)
Al == <<"A", "l">>
Up == <<"U", "p">>

RawNode(id, labels, properties) == [id |-> id, labels |-> labels, properties |-> properties]
RawRel(id, type, properties, s, e) ==
    [id |-> id, type |-> type, properties |-> properties, start_node |-> s, end_node |-> e]

\* a Person who acted in a Movie
PayloadCast ==
    [nodes |-> <<RawNode("n1", <<Person>>, [name |-> StrV(Al)]),
                 RawNode("n2", <<Movie>>, [title |-> StrV(Up)])>>,
     relationships |-> <<RawRel("r1", ActedIn, EmptyMap, "n1", "n2")>>]
\* an empty database
PayloadEmpty == [nodes |-> <<>>, relationships |-> <<>>]
\* a relationship with a property named type
PayloadRelType ==
    [nodes |-> <<RawNode("n1", <<Movie>>, EmptyMap), RawNode("n2", <<Movie>>, EmptyMap)>>,
     relationships |-> <<RawRel("r1", Directed, [type |-> StrV(Up)], "n1", "n2")>>]
\* a node with a numeric property named type
PayloadTypeProp ==
    [nodes |-> <<RawNode("n1", <<Person>>, [type |-> IntV(7)])>>, relationships |-> <<>>]

\* a relationship to a node outside the fetched nodes
PayloadDangling ==
    [nodes |-> <<RawNode("n1", <<Person>>, [name |-> StrV(Al)])>>,
     relationships |-> <<RawRel("r1", ActedIn, EmptyMap, "n1", "n9")>>]

\* a Person node with a text property named type
PayloadTypeText ==
    [nodes |-> <<RawNode("n1", <<Person>>, [type |-> StrV(Movie)])>>,
     relationships |-> <<>>]

AppPayloads ==
    {PayloadCast, PayloadEmpty, PayloadRelType, PayloadTypeProp, PayloadDangling,
     PayloadTypeText}

\* the texts typed into the search box
SearchTerms == {<<>>, <<"p", "e", "r", "s", "o", "n">>, <<"M", "O", "V">>}

(***************************************************************************)
(* Actions of the server: a browser session opens (create_app), the search *)
(* box changes (search_nodes), Reset View is clicked (reset_view).          *)
(***************************************************************************)
Init ==
    /\ connection = None
    /\ graph_data = None
    /\ graph_plotter = 0
    /\ graph_renderer = 0
    /\ search_interface = None
    /\ filter_interface = None
    /\ plotters = EmptyMap
    /\ docs = <<>>
    /\ widgets = None
    /\ fetched = None
    /\ applied = EmptyMap
    /\ pattern = None
    /\ explorer = None
    /\ evaluated = None
    /\ shown = None
    /\ start = None
    /\ filters = None
    /\ neo4j = None

\* The inputs of a start-up: the queries run only on a tested connection, and
\* the payload is read only when both queries return.
QueryOutcomes(conn) == IF conn = "ok" THEN BOOLEAN \X BOOLEAN ELSE {<<FALSE, FALSE>>}
PayloadsRead(q, P) == IF q[1] /\ q[2] THEN P ELSE {PayloadEmpty}

CreateApp ==
    /\ Len(docs) < MaxSessions
    /\ \E conn \in ConnOutcomes :
         \E q \in QueryOutcomes(conn) :
           \E p \in PayloadsRead(q, AppPayloads) :
              Startup(FALSE, conn, q[1], q[2], p)

\* search_nodes(attr, old, new): the value of the search box changed to term
SearchNodes ==
    /\ ~IsNone(widgets)
    /\ \E term \in SearchTerms :
        /\ term # widgets.search_value
        /\ Len(applied[widgets.plotter]) < MaxSearches
        /\ plotters' = [plotters EXCEPT ![widgets.plotter] = highlight_nodes(@, term)]
        /\ applied' = [applied EXCEPT ![widgets.plotter] = Append(@, term)]
        /\ widgets' = [widgets EXCEPT !.search_value = term]
    /\ UNCHANGED <<connection, graph_data, graph_plotter, graph_renderer,
                   search_interface, filter_interface, docs, fetched, pattern,
                   explorer, evaluated, shown, start, filters, neo4j>>

\* reset_view(): reset_node_colors(), then search_input.value = "", whose change
\* (when the box was not empty) runs search_nodes with the empty text
ResetView ==
    /\ ~IsNone(widgets)
    /\ plotters' = [plotters EXCEPT ![widgets.plotter] =
            IF widgets.search_value # <<>>
            THEN highlight_nodes(reset_node_colors(@), <<>>)
            ELSE reset_node_colors(@)]
    /\ applied' = [applied EXCEPT ![widgets.plotter] = <<>>]
    /\ widgets' = [widgets EXCEPT !.search_value = <<>>]
    /\ UNCHANGED <<connection, graph_data, graph_plotter, graph_renderer,
                   search_interface, filter_interface, docs, fetched, pattern,
                   explorer, evaluated, shown, start, filters, neo4j>>

Next == CreateApp \/ SearchNodes \/ ResetView

Spec == Init /\ [][Next]_vars

(***************************************************************************)
(* The first start of the process on any payload: the server's first       *)
(* session, or the static export (python app.py static).                   *)
(***************************************************************************)
FirstCreateApp ==
    /\ docs = <<>>
    /\ \E conn \in ConnOutcomes :
         \E q \in QueryOutcomes(conn) :
           \E p \in PayloadsRead(q, Payloads) :
              Startup(FALSE, conn, q[1], q[2], p)

\* Neo4jGraphApp.export_static_html
ExportStaticHtml ==
    /\ docs = <<>>
    /\ \E conn \in ConnOutcomes :
         \E q \in {x \in QueryOutcomes(conn) : x[1] = x[2]} :
           \E p \in PayloadsRead(q, Payloads) :
              Startup(TRUE, conn, q[1], q[2], p)

NextBuild == FirstCreateApp \/ ExportStaticHtml

SpecBuild == Init /\ [][NextBuild]_vars

(***************************************************************************)
(* The script "Project files/app.py": its global graph_data and its        *)
(* in-memory pattern search.                                               *)
(***************************************************************************)
\* get_graph_data(driver)
get_graph_data(nodes_result, relationships_result) ==
    IF IsNone(nodes_result) \/ IsNone(relationships_result) THEN None
    ELSE [kind |-> "dict", gen |-> 1,
          nodes |-> ProcessNodes(nodes_result.rows, EmptyDict),
          relationships |-> ProcessRels(relationships_result.rows, EmptyDict)]

\* the options of the node-type dropdowns and of the relationship dropdown
NodeTypeOptions(gd) == {PrimaryType(gd.nodes.val[k]) : k \in DOMAIN gd.nodes.val}
RelTypeOptions(gd) == {gd.relationships.val[k].type : k \in DOMAIN gd.relationships.val}

\* x in list
InList(x, list) == \E i \in 1..Len(list) : list[i] = x

RECURSIVE AddPatternNodes(_, _, _)
AddPatternNodes(G, ids, nodes) ==
    IF ids = <<>> THEN G
    ELSE AddPatternNodes(add_node(G, Head(ids), NodeProps(nodes.val[Head(ids)])),
                         Tail(ids), nodes)

RECURSIVE AddPatternRels(_, _)
AddPatternRels(G, rels) ==
    IF rels = <<>> THEN G
    ELSE AddPatternRels(
            add_edge(G, Head(rels)[1], Head(rels)[2],
                     MapUpdate([type |-> StrV(Head(rels)[3].type)], Head(rels)[3].properties)),
            Tail(rels))

\* create_pattern_search.create_pattern_visualization(type_a, rel_type, type_b).
\* The nodes of pattern_G come from set(matching_nodes_a + matching_nodes_b),
\* taken here in list order.
create_pattern_visualization(gd, type_a, rel_type, type_b) ==
    LET matching_nodes_a ==
            SelectSeq(gd.nodes.keys, LAMBDA n : PrimaryType(gd.nodes.val[n]) = type_a)
        matching_nodes_b ==
            SelectSeq(gd.nodes.keys,
                      LAMBDA n : /\ PrimaryType(gd.nodes.val[n]) # type_a
                                 /\ PrimaryType(gd.nodes.val[n]) = type_b)
        matching_keys ==
            SelectSeq(gd.relationships.keys,
                      LAMBDA k : /\ gd.relationships.val[k].type = rel_type
                                 /\ InList(gd.relationships.val[k].start_node, matching_nodes_a)
                                 /\ InList(gd.relationships.val[k].end_node, matching_nodes_b))
        matching_relationships ==
            [i \in 1..Len(matching_keys) |->
                <<gd.relationships.val[matching_keys[i]].start_node,
                  gd.relationships.val[matching_keys[i]].end_node,
                  gd.relationships.val[matching_keys[i]]>>]
    IN  [kind |-> "pattern", type_a |-> type_a, rel_type |-> rel_type, type_b |-> type_b,
         pattern_G |-> AddPatternRels(
                          AddPatternNodes(EmptyGraph, matching_nodes_a \o matching_nodes_b,
                                          gd.nodes),
                          matching_relationships),
         matching_nodes_a |-> matching_nodes_a,
         matching_nodes_b |-> matching_nodes_b,
         matching_relationships |-> matching_relationships]

\* graph_data = get_graph_data(neo4j_driver), run once when the script starts
ScriptLoad ==
    /\ IsNone(graph_data)
    /\ IsNone(fetched)
    /\ \E q \in BOOLEAN \X BOOLEAN :
         \E p \in PayloadsRead(q, Payloads) :
            /\ graph_data' = get_graph_data(IF q[1] THEN Rows(p.nodes) ELSE None,
                                            IF q[2] THEN Rows(p.relationships) ELSE None)
            /\ fetched' = IF q[1] /\ q[2] THEN p ELSE fetched
    /\ UNCHANGED <<connection, graph_plotter, graph_renderer, search_interface,
                   filter_interface, plotters, docs, widgets, applied, pattern,
                   explorer, evaluated, shown, start, filters, neo4j>>

\* search_pattern(): the Search Pattern button, with the dropdowns' values
SearchPattern ==
    /\ ~IsNone(graph_data)
    /\ \E type_a \in NodeTypeOptions(graph_data), rel_type \in RelTypeOptions(graph_data),
          type_b \in NodeTypeOptions(graph_data) :
            pattern' = create_pattern_visualization(graph_data, type_a, rel_type, type_b)
    /\ UNCHANGED <<connection, graph_data, graph_plotter, graph_renderer, search_interface,
                   filter_interface, plotters, docs, widgets, fetched, applied,
                   explorer, evaluated, shown, start, filters, neo4j>>

NextPattern == ScriptLoad \/ SearchPattern

SpecPattern == Init /\ [][NextPattern]_vars

(***************************************************************************)
(* Text operations of the filter conditions.                               *)
(***************************************************************************)
\* the whitespace of the model's texts
Whitespace == {" "}
Quotes == {"'", "\""}

RECURSIVE LStrip(_, _)
LStrip(cs, S) == IF cs # <<>> /\ Head(cs) \in S THEN LStrip(Tail(cs), S) ELSE cs

RECURSIVE RStrip(_, _)
RStrip(cs, S) ==
    IF cs # <<>> /\ cs[Len(cs)] \in S THEN RStrip(SubSeq(cs, 1, Len(cs) - 1), S) ELSE cs

\* s.strip(chars)
StripChars(cs, S) == RStrip(LStrip(cs, S), S)
\* s.strip()
Strip(cs) == StripChars(cs, Whitespace)

\* s.find(t)
Find(s, t) ==
    IF Contains(s, t)
    THEN CHOOSE i \in 0..(Len(s) - Len(t)) :
            /\ SubSeq(s, i + 1, i + Len(t)) = t
            /\ \A j \in 0..(i - 1) : SubSeq(s, j + 1, j + Len(t)) # t
    ELSE -1

\* s.split(sep)[1], for sep in s
SplitSecond(s, sep) ==
    LET rest == SubSeq(s, Find(s, sep) + Len(sep) + 1, Len(s))
    IN  IF Contains(rest, sep) THEN SubSeq(rest, 1, Find(rest, sep)) ELSE rest

\* s.isdigit()
IsDigit(cs) == cs # <<>> /\ \A i \in 1..Len(cs) : \E d \in 1..Len(Digits) : Digits[d] = cs[i]

DigitVal(c) == (CHOOSE d \in 1..Len(Digits) : Digits[d] = c) - 1

RECURSIVE DigitsToNat(_)
DigitsToNat(cs) ==
    IF cs = <<>> THEN 0
    ELSE DigitsToNat(SubSeq(cs, 1, Len(cs) - 1)) * 10 + DigitVal(cs[Len(cs)])

AllDigits(cs) == \A i \in 1..Len(cs) : \E d \in 1..Len(Digits) : Digits[d] = cs[i]

\* the outcome of a conversion that raised ValueError or TypeError
Failed == [kind |-> "error"]

\* float(text) of an unsigned decimal with at most two decimals (the numerals of
\* the model's texts): digits, or digits "." digits
ParseUnsigned(cs) ==
    IF ~Contains(cs, <<".">>)
    THEN IF cs # <<>> /\ AllDigits(cs) THEN FloatV(DigitsToNat(cs) * 100) ELSE Failed
    ELSE LET whole == SubSeq(cs, 1, Find(cs, <<".">>))
             frac == SubSeq(cs, Find(cs, <<".">>) + 2, Len(cs))
         IN  IF /\ AllDigits(whole) /\ AllDigits(frac)
                /\ Len(whole) + Len(frac) > 0 /\ Len(frac) <= 2
             THEN FloatV(DigitsToNat(whole) * 100 +
                         (IF Len(frac) = 1 THEN DigitsToNat(frac) * 10 ELSE DigitsToNat(frac)))
             ELSE Failed

\* float(text): surrounding whitespace and one sign are accepted
ParseFloat(cs) ==
    LET t == Strip(cs)
    IN  IF t # <<>> /\ Head(t) = "-"
        THEN (IF ParseUnsigned(Tail(t)) = Failed THEN Failed
              ELSE FloatV(0 - ParseUnsigned(Tail(t)).centi))
        ELSE IF t # <<>> /\ Head(t) = "+" THEN ParseUnsigned(Tail(t))
        ELSE ParseUnsigned(t)

\* float(value)
PyFloat(v) ==
    CASE v.kind = "str" -> ParseFloat(v.chars)
      [] v.kind = "int" -> FloatV(v.num * 100)
      [] v.kind = "float" -> v
      [] v.kind = "bool" -> FloatV(IF v.val THEN 100 ELSE 0)
      [] v.kind = "list" -> Failed
      [] v.kind = "none" -> Failed

(***************************************************************************)
(* PatternPropertyExplorer._evaluate_filter (src/search_function.py).      *)
(* A call ends by returning a bool or by an exception that leaves it.      *)
(***************************************************************************)
Return(b) == [raised |-> FALSE, val |-> b]
Raise == [raised |-> TRUE, val |-> FALSE]

\* no except clause: the exception leaves the call
ExceptMissing(outcome) == outcome

\* except: return False
Except(outcome) == IF outcome.raised THEN Return(FALSE) ELSE outcome

ContainsWord == <<"c", "o", "n", "t", "a", "i", "n", "s">>

\* the body of the try of the equality branch
EqualityBody(value, compare_value) ==
    IF IsDigit(compare_value)
    THEN (IF PyFloat(value) = Failed THEN Raise
          ELSE Return(PyFloat(value).centi = PyFloat(StrV(compare_value)).centi))
    ELSE Return(Lower(PyStr(value)) = Lower(compare_value))

\* the body of the try of the numeric comparisons; without ">" or "<" in front
\* the call falls through to return True
NumericBody(value, filter_condition) ==
    IF PyFloat(value) = Failed THEN Raise
    ELSE IF StartsWith(filter_condition, <<">">>)
    THEN (IF ParseFloat(Tail(filter_condition)) = Failed THEN Raise
          ELSE Return(PyFloat(value).centi > ParseFloat(Tail(filter_condition)).centi))
    ELSE IF StartsWith(filter_condition, <<"<">>)
    THEN (IF ParseFloat(Tail(filter_condition)) = Failed THEN Raise
          ELSE Return(PyFloat(value).centi < ParseFloat(Tail(filter_condition)).centi))
    ELSE Return(TRUE)

\* replace("==", "").replace("=", "") leaves the text without its "=" characters
_evaluate_filter(value, filter_condition) ==
    IF filter_condition = <<>> THEN Return(TRUE)
    ELSE LET fc == Lower(Strip(filter_condition))
         IN  IF Contains(fc, ContainsWord)
             THEN Return(/\ value.kind = "str"
                         /\ Contains(Lower(PyStr(value)),
                                     Lower(StripChars(Strip(SplitSecond(fc, ContainsWord)),
                                                      Quotes))))
             ELSE IF StartsWith(fc, <<"=", "=">>) \/ Contains(fc, <<"=">>)
             THEN Except(EqualityBody(value,
                            StripChars(Strip(SelectSeq(fc, LAMBDA c : c # "=")), Quotes)))
             ELSE Except(NumericBody(value, fc))

(***************************************************************************)
(* The pattern page: GraphSearchInterface.search_pattern fetches the       *)
(* pattern data from the database (get_pattern_data), builds its graph     *)
(* (GraphPlotter.create_pattern_visualization) and makes a                 *)
(* PatternPropertyExplorer over them.                                      *)
(***************************************************************************)
Drama == <<"D", "r", "a", "m", "a">>
Coral == "#FF6B6B"
Gray == "#CCCCCC"

\* GraphDataFetcher.get_pattern_data: None when the query failed
get_pattern_data(result) ==
    IF IsNone(result) THEN None
    ELSE [kind |-> "dict", gen |-> 0,
          nodes |-> ProcessNodes(result.nodes, EmptyDict),
          relationships |-> ProcessRels(result.relationships, EmptyDict)]

\* the colour column create_pattern_visualization gives the pattern graph
PatternColors(G, node_type_a, node_type_b) ==
    [i \in 1..Len(G.nodes.keys) |->
        IF NodeTypeOf(G, G.nodes.keys[i]) = StrV(node_type_a) THEN Gold
        ELSE IF NodeTypeOf(G, G.nodes.keys[i]) = StrV(node_type_b) THEN Coral
        ELSE Gray]

\* PatternPropertyExplorer(pattern_data, pattern_G, graph_renderer); filter is
\* the last _apply_filter call, None before the first
NewExplorer(pattern_data, node_type_a, node_type_b) ==
    [kind |-> "explorer", pattern_data |-> pattern_data,
     pattern_graph |-> CreateNetworkxGraph(pattern_data).G,
     color |-> PatternColors(CreateNetworkxGraph(pattern_data).G, node_type_a, node_type_b),
     filter |-> None]

\* a match test that evaluates the condition on None for a missing property
NodeMatchesMissing(node_info, node_type, property_name, filter_condition) ==
    IF PrimaryType(node_info) # node_type THEN Return(FALSE)
    ELSE IF property_name \notin DOMAIN node_info.properties
    THEN _evaluate_filter(None, filter_condition)
    ELSE _evaluate_filter(node_info.properties[property_name], filter_condition)

\* matches, for one node of the pattern graph
NodeMatches(node_info, node_type, property_name, filter_condition) ==
    IF PrimaryType(node_info) # node_type THEN Return(FALSE)
    ELSE IF property_name \notin DOMAIN node_info.properties THEN Return(FALSE)
    ELSE IF IsNone(node_info.properties[property_name]) THEN Return(FALSE)
    ELSE _evaluate_filter(node_info.properties[property_name], filter_condition)

\* PatternPropertyExplorer._apply_filter: the explorer afterwards.  An exception
\* of a node's evaluation leaves the call before the colours are written.
FilterOutcomes(ex, node_type, property_name, filter_condition) ==
    [i \in 1..Len(ex.pattern_graph.nodes.keys) |->
        IF ~DictHas(ex.pattern_data.nodes, ex.pattern_graph.nodes.keys[i]) THEN Raise
        ELSE NodeMatches(ex.pattern_data.nodes.val[ex.pattern_graph.nodes.keys[i]],
                         node_type, property_name, filter_condition)]

_apply_filter(ex, node_type, property_name, filter_condition) ==
    CHOOSE after \in
        {[ex EXCEPT
            !.filter = [node_type |-> node_type, property_name |-> property_name,
                        filter_condition |-> filter_condition,
                        raised |-> \E i \in DOMAIN outcome : outcome[i].raised],
            !.color = IF \E i \in DOMAIN outcome : outcome[i].raised THEN @
                      ELSE [i \in DOMAIN outcome |->
                               IF outcome[i].val THEN Gold ELSE Gray]] :
         outcome \in {FilterOutcomes(ex, node_type, property_name, filter_condition)}} : TRUE

\* What get_pattern_data reads for (Person)-[ACTED_IN]->(Movie): the Person
\* n1, the Movie n2 and, in some, a second Movie n3 without properties.
StoredValues ==
    {StrV(Drama), StrV(<<"8", ".", "5", "0">>), IntV(1994), IntV(8), FloatV(850), BoolV(TRUE),
     ListV(<<Drama>>)}

PatternPayloads ==
    {[nodes |-> <<RawNode("n1", <<Person>>, [name |-> StrV(Al)]),
                  RawNode("n2", <<Movie>>, p2)>> \o more[1],
      relationships |-> <<RawRel("r1", ActedIn, EmptyMap, "n1", "n2")>> \o more[2]] :
        p2 \in {EmptyMap} \cup {[rating |-> v] : v \in StoredValues},
        more \in {<<<<>>, <<>>>>,
                  <<<<RawNode("n3", <<Movie>>, EmptyMap)>>,
                    <<RawRel("r2", ActedIn, EmptyMap, "n1", "n3")>>>>}}

\* the texts typed into the Filter Value box
FilterConditions ==
    {<<>>,
     <<"c", "o", "n", "t", "a", "i", "n", "s", " ", "d", "r", "a">>,
     <<"c", "o", "n", "t", "a", "i", "n", "s", " ", "9", "9">>,
     <<"c", "o", "n", "t", "a", "i", "n", "s", " ", "'", "D", "R", "A", "'">>,
     <<"c", "o", "n", "t", "a", "i", "n", "s", " ", "t", "r", "u">>,
     <<"=", "=", " ", "8", ".", "5", "0">>,
     <<"=", " ", "8">>,
     <<"=", "=", " ", "d", "r", "a", "m", "a">>,
     <<"=", " ", "1", "9", "9", "4">>,
     <<">", " ", "5">>,
     <<">", " ", "a", "b", "c">>,
     <<"<", " ", "9">>,
     <<">", "=", " ", "5">>,
     <<"<", "=", " ", "9">>,
     Drama,
     <<" ", " ">>}

\* the values _evaluate_filter is called with
FilterValues == StoredValues \cup {None}

\* the options of the two dropdowns of create_controls
ExplorerTypes(ex) ==
    {PrimaryType(ex.pattern_data.nodes.val[n]) : n \in Range(ex.pattern_graph.nodes.keys)}
ExplorerProperties(ex, node_type) ==
    UNION {DOMAIN ex.pattern_data.nodes.val[n].properties :
              n \in {m \in Range(ex.pattern_graph.nodes.keys) :
                        PrimaryType(ex.pattern_data.nodes.val[m]) = node_type}}

\* search_pattern(): the pattern query returned nodes, the page is made
OpenExplorer ==
    /\ \E p \in PatternPayloads :
          explorer' = NewExplorer(get_pattern_data(p), Person, Movie)
    /\ UNCHANGED <<connection, graph_data, graph_plotter, graph_renderer, search_interface,
                   filter_interface, plotters, docs, widgets, fetched, applied, pattern,
                   evaluated, shown, start, filters, neo4j>>

\* apply_property_filter(): the Apply Filter button
ApplyFilter ==
    /\ ~IsNone(explorer)
    /\ \E node_type \in ExplorerTypes(explorer) :
         \E property_name \in ExplorerProperties(explorer, node_type) :
           \E filter_condition \in FilterConditions :
              explorer' = _apply_filter(explorer, node_type, property_name, filter_condition)
    /\ UNCHANGED <<connection, graph_data, graph_plotter, graph_renderer, search_interface,
                   filter_interface, plotters, docs, widgets, fetched, applied, pattern,
                   evaluated, shown, start, filters, neo4j>>

\* one call of _evaluate_filter
EvaluateFilter ==
    /\ \E value \in FilterValues, filter_condition \in FilterConditions :
          evaluated' = [value |-> value, filter_condition |-> filter_condition,
                        outcome |-> _evaluate_filter(value, filter_condition)]
    /\ UNCHANGED <<connection, graph_data, graph_plotter, graph_renderer, search_interface,
                   filter_interface, plotters, docs, widgets, fetched, applied, pattern,
                   explorer, shown, start, filters, neo4j>>

\* the pattern page and its property filter
NextFilter == OpenExplorer \/ ApplyFilter

SpecFilter == Init /\ [][NextFilter]_vars

\* _evaluate_filter on every value and condition
NextEvaluate == EvaluateFilter

SpecEvaluate == Init /\ [][NextEvaluate]_vars

\* one session of the dashboard with its search box, beside a pattern page
OpenSession == docs = <<>> /\ CreateApp

\* a session with its search box, next to the conditions of the property filter
NextContains == OpenSession \/ SearchNodes \/ EvaluateFilter

SpecContains == Init /\ [][NextContains]_vars

NextFrame == OpenSession \/ SearchNodes \/ ResetView \/ OpenExplorer \/ ApplyFilter

SpecFrame == Init /\ [][NextFrame]_vars

(***************************************************************************)
(* The name and properties columns of the node data source                 *)
(* (GraphPlotter._get_node_name, _format_node_properties).  The attributes *)
(* of a node are a dict in insertion order, here the list of its items     *)
(* <<key, value>> with the keys as texts.                                   *)
(***************************************************************************)
ItemKeys(items) == {items[i][1] : i \in 1..Len(items)}

\* d[k], for k in d
ItemGet(items, k) == items[CHOOSE i \in 1..Len(items) : items[i][1] = k][2]

\* d[k] = v
ItemSet(items, k, v) ==
    IF k \in ItemKeys(items)
    THEN [i \in 1..Len(items) |-> IF items[i][1] = k THEN <<k, v>> ELSE items[i]]
    ELSE Append(items, <<k, v>>)

RECURSIVE ItemsUpdate(_, _)
\* d.update(other)
ItemsUpdate(items, other) ==
    IF other = <<>> THEN items
    ELSE ItemsUpdate(ItemSet(items, Head(other)[1], Head(other)[2]), Tail(other))

LabelKey == <<"l", "a", "b", "e", "l">>
TypeKey == <<"t", "y", "p", "e">>
NameKey == <<"n", "a", "m", "e">>
TitleKey == <<"t", "i", "t", "l", "e">>
SeriesTitleKey == <<"S", "e", "r", "i", "e", "s", "_", "T", "i", "t", "l", "e">>
CapitalNameKey == <<"N", "a", "m", "e">>

\* node_props of _create_networkx_graph: label and type, then the properties
NodeData(labels, properties) ==
    ItemsUpdate(<<<<LabelKey, StrV(IF labels = <<>> THEN Unknown ELSE labels[1])>>,
                  <<TypeKey, StrV(IF labels = <<>> THEN Unknown ELSE labels[1])>>>>,
                properties)

NameFields == <<NameKey, TitleKey, SeriesTitleKey, CapitalNameKey>>
IdPrefix == 8
MaxListed == 5
MaxText == 50

\* s[:n]
Take(s, n) == SubSeq(s, 1, IF Len(s) < n THEN Len(s) ELSE n)

\* s.split(":")[-1]
LastSegment(s) ==
    IF Contains(s, <<":">>)
    THEN SubSeq(s, 1 + (CHOOSE i \in 1..Len(s) :
                            s[i] = ":" /\ \A j \in (i + 1)..Len(s) : s[j] # ":"), Len(s))
    ELSE s

\* GraphPlotter._get_node_name
_get_node_name(node_id, node_data) ==
    LET found == SelectSeq(NameFields,
                           LAMBDA name_field : /\ name_field \in ItemKeys(node_data)
                                               /\ Truthy(ItemGet(node_data, name_field)))
    IN  IF found # <<>> THEN PyStr(ItemGet(node_data, Head(found)))
        ELSE PyStr(IF TypeKey \in ItemKeys(node_data) THEN ItemGet(node_data, TypeKey)
                   ELSE StrV(Unknown))
             \o <<"_">> \o Take(LastSegment(node_id), IdPrefix)

excluded_keys == {TypeKey, LabelKey, NameKey, TitleKey, SeriesTitleKey, CapitalNameKey}

\* relevant_props, as its items
RelevantProps(node_data) ==
    SelectSeq(node_data, LAMBDA item : /\ item[1] \notin excluded_keys
                                       /\ ~StartsWith(item[1], <<"_">>))

\* a formatted property that keeps a long text whole
FormatPropWhole(item) == item[1] \o <<":", " ">> \o PyStr(item[2])

\* f"{k}: {v}", v a text of more than 50 characters cut to 50 and "..."
FormatProp(item) ==
    item[1] \o <<":", " ">> \o
    (IF item[2].kind = "str" /\ Len(item[2].chars) > MaxText
     THEN Take(item[2].chars, MaxText) \o <<".", ".", ".">>
     ELSE PyStr(item[2]))

RECURSIVE Join(_, _)
\* sep.join(parts)
Join(parts, sep) ==
    IF parts = <<>> THEN <<>>
    ELSE IF Len(parts) = 1 THEN parts[1]
    ELSE parts[1] \o sep \o Join(Tail(parts), sep)

NoProperties == <<"N", "o", " ", "a", "d", "d", "i", "t", "i", "o", "n", "a", "l", " ", "p", "r", "o", "p", "e", "r", "t", "i", "e", "s">>

\* GraphPlotter._format_node_properties
_format_node_properties(node_data) ==
    LET relevant_props == RelevantProps(node_data)
        formatted_props == [i \in 1..Len(Take(relevant_props, MaxListed)) |->
                               FormatProp(relevant_props[i])]
    IN  IF relevant_props = <<>> THEN NoProperties
        ELSE Join(formatted_props, <<";", " ">>) \o
             (IF Len(relevant_props) > MaxListed
              THEN <<" ", ".", ".", ".", " ", "(", "+">> \o IntToChars(Len(relevant_props) - MaxListed) \o <<" ", "m", "o", "r", "e", ")">>
              ELSE <<>>)

\* nodes with their element ids: short, with ":" separators, longer than the
\* prefix
ShownNodes ==
    {[id |-> <<"n", "1">>, labels |-> <<>>],
     [id |-> <<"4", ":", "a", "b", ":", "1", "7">>, labels |-> <<Movie>>],
     [id |-> <<"a", "b", "c", "d", "e", "f", "g", "h", "i", "j">>,
      labels |-> <<Person, Actor>>]}

\* texts of more than 50 and of exactly 50 characters
LongText == [i \in 1..(MaxText + 1) |-> IF i > MaxText THEN "z" ELSE "x"]
FullText == [i \in 1..MaxText |-> "y"]

\* the properties a node may hold under the name keys, in the order stored
NameItems ==
    {n \o t \o other :
        n \in {<<>>, <<<<NameKey, StrV(Al)>>>>, <<<<NameKey, StrV(<<>>)>>>>,
               <<<<NameKey, IntV(1994)>>>>, <<<<NameKey, IntV(0)>>>>},
        t \in {<<>>, <<<<TitleKey, StrV(Up)>>>>},
        other \in {<<>>, <<<<SeriesTitleKey, StrV(Drama)>>>>,
                   <<<<CapitalNameKey, StrV(Al)>>>>}}

\* further properties of a node; a node holds a prefix of this list
ExtraItems ==
    <<<<<<"y", "e", "a", "r">>, IntV(1994)>>,
      <<<<"o", "v", "e", "r", "v", "i", "e", "w">>, StrV(LongText)>>,
      <<<<"_", "s", "e", "e", "n">>, BoolV(TRUE)>>,
      <<<<"t", "a", "g", "l", "i", "n", "e">>, StrV(FullText)>>,
      <<<<"r", "a", "t", "i", "n", "g">>, FloatV(850)>>,
      <<<<"g", "e", "n", "r", "e">>, StrV(Drama)>>,
      <<<<"v", "o", "t", "e", "s">>, IntV(8)>>,
      <<<<"c", "a", "s", "t">>, ListV(<<Al>>)>>>>

\* how many of the further properties a node holds
ExtraCounts == {0, 2, 3, 6, 7, Len(ExtraItems)}

\* create_visualization computes the name and properties columns for a node
ShowNode ==
    /\ \E node \in ShownNodes, names \in NameItems, extras \in ExtraCounts :
          LET node_data == NodeData(node.labels, names \o Take(ExtraItems, extras))
          IN  shown' = [node_id |-> node.id, node_data |-> node_data,
                        name |-> _get_node_name(node.id, node_data),
                        properties |-> _format_node_properties(node_data)]
    /\ UNCHANGED <<connection, graph_data, graph_plotter, graph_renderer, search_interface,
                   filter_interface, plotters, docs, widgets, fetched, applied, pattern,
                   explorer, evaluated, start, filters, neo4j>>

NextColumns == ShowNode

SpecColumns == Init /\ [][NextColumns]_vars

(***************************************************************************)
(* The production start-up (src/start.py, src/start.sh.py): main as a      *)
(* process, one action per step.                                           *)
(***************************************************************************)
required_vars == {"NEO4J_URI", "NEO4J_USER", "NEO4J_PASSWORD"}

\* os.environ: a variable is unset, set to the empty text, or set to a text;
\* PORT is unset, a number, or a text that is no number
Environments ==
    {e \in [required_vars \cup {"PORT"} -> {"unset", "empty", "set", "malformed"}] :
        /\ \A v \in required_vars : e[v] # "malformed"
        /\ e["PORT"] # "empty"}

\* validate_environment(): no required variable is missing or empty
validate_environment(env) == \A var \in required_vars : env[var] \notin {"unset", "empty"}

\* the keyword parameters of Neo4jGraphApp.run_server(self, port, show_browser)
run_server_parameters == {"port", "show_browser"}

\* the keywords of main's call app.run_server(port=port, host=host, show_browser=False)
run_server_keywords == {"port", "host", "show_browser"}

\* a call with keywords binds when each is a parameter, else it is a TypeError
Binds(keywords, parameters) == keywords \subseteq parameters

\* main starts
StartMain ==
    /\ IsNone(start)
    /\ \E env \in Environments :
          start' = [kind |-> "process", pc |-> "validate", env |-> env, app |-> FALSE,
                    entered |-> FALSE, cleaned |-> FALSE, status |-> "running"]
    /\ UNCHANGED <<connection, graph_data, graph_plotter, graph_renderer, search_interface,
                   filter_interface, plotters, docs, widgets, fetched, applied, pattern,
                   explorer, evaluated, shown, filters, neo4j>>

\* if not validate_environment(): sys.exit(1)
ValidateEnvironment ==
    /\ ~IsNone(start)
    /\ start.pc = "validate"
    /\ start' = IF validate_environment(start.env)
                THEN [start EXCEPT !.pc = "get_port"]
                ELSE [start EXCEPT !.pc = "exited", !.status = "1"]
    /\ UNCHANGED <<connection, graph_data, graph_plotter, graph_renderer, search_interface,
                   filter_interface, plotters, docs, widgets, fetched, applied, pattern,
                   explorer, evaluated, shown, filters, neo4j>>

\* port = get_port(): int(os.environ.get("PORT", 5006)), a ValueError outside
\* the try ends the process with status 1
GetPort ==
    /\ ~IsNone(start)
    /\ start.pc = "get_port"
    /\ start' = IF start.env["PORT"] = "malformed"
                THEN [start EXCEPT !.pc = "exited", !.status = "1"]
                ELSE [start EXCEPT !.pc = "create"]
    /\ UNCHANGED <<connection, graph_data, graph_plotter, graph_renderer, search_interface,
                   filter_interface, plotters, docs, widgets, fetched, applied, pattern,
                   explorer, evaluated, shown, filters, neo4j>>

\* app = Neo4jGraphApp()
CreateAppObject ==
    /\ ~IsNone(start)
    /\ start.pc = "create"
    /\ start' = [start EXCEPT !.pc = "run", !.app = TRUE]
    /\ UNCHANGED <<connection, graph_data, graph_plotter, graph_renderer, search_interface,
                   filter_interface, plotters, docs, widgets, fetched, applied, pattern,
                   explorer, evaluated, shown, filters, neo4j>>

\* try: app.run_server(port=port, host=host, show_browser=False)
RunServer ==
    /\ ~IsNone(start)
    /\ start.pc = "run"
    /\ start' = IF Binds(run_server_keywords, run_server_parameters)
                THEN [start EXCEPT !.pc = "serving", !.entered = TRUE]
                ELSE [start EXCEPT !.pc = "raised"]
    /\ UNCHANGED <<connection, graph_data, graph_plotter, graph_renderer, search_interface,
                   filter_interface, plotters, docs, widgets, fetched, applied, pattern,
                   explorer, evaluated, shown, filters, neo4j>>

\* the server is interrupted (except KeyboardInterrupt), or the call raised
\* (except Exception: sys.exit(1)); finally: app.cleanup()
Finally ==
    /\ ~IsNone(start)
    /\ start.pc \in {"serving", "raised"}
    /\ start' = [start EXCEPT !.pc = "exited", !.cleaned = TRUE,
                              !.status = IF start.pc = "raised" THEN "1" ELSE "0"]
    /\ UNCHANGED <<connection, graph_data, graph_plotter, graph_renderer, search_interface,
                   filter_interface, plotters, docs, widgets, fetched, applied, pattern,
                   explorer, evaluated, shown, filters, neo4j>>

NextStart ==
    StartMain \/ ValidateEnvironment \/ GetPort \/ CreateAppObject \/ RunServer \/ Finally

SpecStart == Init /\ [][NextStart]_vars

(***************************************************************************)
(* GraphFilterInterface (src/filter_function.py): the widgets of its       *)
(* controls and the handlers of their events.  The methods the handlers    *)
(* call to repaint the plot (_apply_node_type_filter and the like) act on  *)
(* the field visual: the filter shown and the nodes it matches.            *)
(***************************************************************************)
\* graphs of the filter page: one with a numeric and a text property, one
\* without properties
FilterPayloads ==
    {[nodes |-> <<RawNode("n1", <<Person>>, [name |-> StrV(Al)]),
                  RawNode("n2", <<Movie>>, [rating |-> IntV(8)]),
                  RawNode("n3", <<Movie>>, [rating |-> IntV(5)])>>,
      relationships |-> <<RawRel("r1", ActedIn, EmptyMap, "n1", "n2")>>],
     [nodes |-> <<RawNode("n1", <<Person>>, EmptyMap)>>, relationships |-> <<>>]}

IsNumeric(v) == v.kind \in {"int", "float"}
Centi(v) == IF v.kind = "int" THEN 100 * v.num ELSE v.centi

\* the property values of kind K under name p, over all nodes
ValuesOf(gd, p, K(_)) ==
    {gd.nodes.val[n].properties[p] :
        n \in {m \in DOMAIN gd.nodes.val : /\ p \in DOMAIN gd.nodes.val[m].properties
                                           /\ K(gd.nodes.val[m].properties[p])}}

PropertyNames(gd) == UNION {DOMAIN gd.nodes.val[n].properties : n \in DOMAIN gd.nodes.val}

\* _get_numeric_properties: property name -> (min, max) of its numeric values
_get_numeric_properties(gd) ==
    [p \in {q \in PropertyNames(gd) : ValuesOf(gd, q, IsNumeric) # {}} |->
        LET cs == {Centi(v) : v \in ValuesOf(gd, p, IsNumeric)}
        IN  <<CHOOSE x \in cs : \A y \in cs : x <= y, CHOOSE x \in cs : \A y \in cs : x >= y>>]

IsText(v) == v.kind = "str"

\* _get_text_properties: the names of the properties with text values
_get_text_properties(gd) == {q \in PropertyNames(gd) : ValuesOf(gd, q, IsText) # {}}

\* list(d.keys())[0] if d else None
FirstOf(S) == IF S = {} THEN None ELSE [kind |-> "option", value |-> CHOOSE x \in S : TRUE]

\* _get_all_node_types
_get_all_node_types(gd) == {PrimaryType(gd.nodes.val[n]) : n \in DOMAIN gd.nodes.val}

EmptyFilters == [k \in {} |-> None]

\* _reset_visualization: no filter shown, every node as loaded
_reset_visualization(f) ==
    [f EXCEPT !.visual = [by |-> <<"original">>, nodes |-> DOMAIN f.graph_data.nodes.val]]

\* _get_relationship_types: the types of the loaded relationships
_get_relationship_types(gd) ==
    {gd.relationships.val[r].type : r \in DOMAIN gd.relationships.val}

\* the degree of node n: the relationships of the given types that start or end at it
Degree(gd, n, types) ==
    Cardinality({r \in DOMAIN gd.relationships.val :
                    /\ gd.relationships.val[r].type \in types
                    /\ n \in {gd.relationships.val[r].start_node,
                               gd.relationships.val[r].end_node}})

RECURSIVE MaxOf(_)
MaxOf(S) ==
    IF S = {} THEN 0
    ELSE LET x == CHOOSE y \in S : TRUE
             m == MaxOf(S \ {x})
         IN  IF x > m THEN x ELSE m

\* _get_max_degree: the largest degree of a node
_get_max_degree(gd) ==
    MaxOf({Degree(gd, n, _get_relationship_types(gd)) : n \in DOMAIN gd.nodes.val})

\* GraphFilterInterface(graph_data, ...) and the widgets that
\* create_node_type_filter, create_property_range_filter and
\* create_text_property_filter make
NewFilters(gd) ==
    LET numeric_properties == _get_numeric_properties(gd)
        initial_prop == FirstOf(DOMAIN numeric_properties)
        initial_range == IF IsNone(initial_prop) THEN <<0, 10000>>
                         ELSE numeric_properties[initial_prop.value]
    IN  _reset_visualization(
            [kind |-> "filters", graph_data |-> gd, active_filters |-> EmptyFilters,
             visual |-> None, event |-> <<"create">>,
             node_type_multiselect |-> _get_all_node_types(gd),
             property_select |-> initial_prop,
             slider_start |-> initial_range[1], slider_end |-> initial_range[2],
             range_slider |-> initial_range[1], max_slider |-> initial_range[2],
             text_property_select |-> FirstOf(_get_text_properties(gd)),
             text_input |-> <<>>, filter_mode |-> 0, case_sensitive |-> FALSE,
             rel_type_multiselect |-> _get_relationship_types(gd),
             min_degree_slider |-> 0, max_degree_slider |-> _get_max_degree(gd)])

\* d[k] = v
FilterSet(d, k, v) == [x \in DOMAIN d \cup {k} |-> IF x = k THEN v ELSE d[x]]

\* _apply_node_type_filter(selected_types): the nodes of the selected types
_apply_node_type_filter(f, selected_types) ==
    [f EXCEPT !.visual =
        [by |-> <<"node_types">>,
         nodes |-> {n \in DOMAIN f.graph_data.nodes.val :
                       PrimaryType(f.graph_data.nodes.val[n]) \in selected_types}]]

\* update_node_type_filter(attr, old, new)
update_node_type_filter(f, new) ==
    [_apply_node_type_filter(f, new) EXCEPT
        !.active_filters = FilterSet(@, <<"node_types">>, new)]

\* _apply_numeric_range_filter(property_name, min_value, max_value): the nodes
\* whose property is a number v with min_value <= v <= max_value
_apply_numeric_range_filter(f, property_name, min_value, max_value) ==
    [f EXCEPT !.visual =
        [by |-> <<"range_", property_name>>,
         nodes |-> {n \in DOMAIN f.graph_data.nodes.val :
                      LET props == f.graph_data.nodes.val[n].properties
                      IN  /\ property_name \in DOMAIN props
                          /\ IsNumeric(props[property_name])
                          /\ min_value <= Centi(props[property_name])
                          /\ Centi(props[property_name]) <= max_value}]]

\* an apply_range_filter without the test of the selected property
apply_range_filter_unguarded(f) ==
    LET property_name == IF IsNone(f.property_select) THEN "None" ELSE f.property_select.value
    IN  [_apply_numeric_range_filter(f, property_name, f.range_slider, f.max_slider) EXCEPT
            !.active_filters =
                FilterSet(@, <<"range_", property_name>>, <<f.range_slider, f.max_slider>>)]

\* apply_range_filter()
apply_range_filter(f) ==
    IF IsNone(f.property_select) THEN f
    ELSE [_apply_numeric_range_filter(f, f.property_select.value, f.range_slider,
                                      f.max_slider) EXCEPT
            !.active_filters = FilterSet(@, <<"range_", f.property_select.value>>,
                                         <<f.range_slider, f.max_slider>>)]

\* _apply_text_filter(property_name, filter_text, mode, case_sensitive), for the
\* modes Contains (0) and Equals (1)
_apply_text_filter(f, property_name, filter_text, mode, case_sensitive) ==
    [f EXCEPT !.visual =
        [by |-> <<"text_", property_name>>,
         nodes |-> {n \in DOMAIN f.graph_data.nodes.val :
                      LET props == f.graph_data.nodes.val[n].properties
                          value == IF case_sensitive THEN PyStr(props[property_name])
                                   ELSE Lower(PyStr(props[property_name]))
                          text == IF case_sensitive THEN filter_text ELSE Lower(filter_text)
                      IN  /\ property_name \in DOMAIN props
                          /\ IF mode = 0 THEN Contains(value, text) ELSE value = text}]]

\* apply_text_filter()
apply_text_filter(f) ==
    IF IsNone(f.text_property_select) \/ f.text_input = <<>> THEN f
    ELSE [_apply_text_filter(f, f.text_property_select.value, f.text_input, f.filter_mode,
                             f.case_sensitive) EXCEPT
            !.active_filters =
                FilterSet(@, <<"text_", f.text_property_select.value>>,
                          [text |-> f.text_input, mode |-> f.filter_mode,
                           case_sensitive |-> f.case_sensitive])]

\* _apply_relationship_filter(selected_rel_types, min_degree, max_degree): the
\* nodes whose degree over the selected types lies in min_degree..max_degree
_apply_relationship_filter(f, selected_rel_types, min_degree, max_degree) ==
    [f EXCEPT !.visual =
        [by |-> <<"relationships">>,
         nodes |-> {n \in DOMAIN f.graph_data.nodes.val :
                      /\ min_degree <= Degree(f.graph_data, n, selected_rel_types)
                      /\ Degree(f.graph_data, n, selected_rel_types) <= max_degree}]]

\* apply_relationship_filter()
apply_relationship_filter(f) ==
    [_apply_relationship_filter(f, f.rel_type_multiselect, f.min_degree_slider,
                                f.max_degree_slider) EXCEPT
        !.active_filters =
            FilterSet(@, <<"relationships">>,
                      [types |-> f.rel_type_multiselect, min_degree |-> f.min_degree_slider,
                       max_degree |-> f.max_degree_slider])]

\* clear_all_filters(): active_filters.clear(), _reset_visualization(), and
\* the summary is written anew
clear_all_filters(f) == _reset_visualization([f EXCEPT !.active_filters = EmptyFilters])

\* the positions a slider is moved to: its two ends
SliderValues(f) == {f.slider_start, f.slider_end}

FilterTexts == {<<>>, <<"a", "l">>}

UnchangedButFilters ==
    UNCHANGED <<connection, graph_data, graph_plotter, graph_renderer, search_interface,
                filter_interface, plotters, docs, widgets, fetched, applied, pattern,
                explorer, evaluated, shown, start, neo4j>>

\* create_visualization makes the filter interface, create_layout its controls
OpenFilters ==
    /\ IsNone(filters)
    /\ \E p \in FilterPayloads :
          filters' = NewFilters(get_all_graph_data(Rows(p.nodes), Rows(p.relationships), 1))
    /\ UnchangedButFilters

\* the selection of the node types changes
SelectNodeTypes ==
    /\ ~IsNone(filters)
    /\ \E new \in SUBSET _get_all_node_types(filters.graph_data) :
          /\ new # filters.node_type_multiselect
          /\ filters' = [update_node_type_filter(filters, new) EXCEPT
                            !.node_type_multiselect = new,
                            !.event = <<"update_node_type_filter">>]
    /\ UnchangedButFilters

\* one of the two sliders is moved
MoveSlider ==
    /\ ~IsNone(filters)
    /\ \E v \in SliderValues(filters) :
          \/ /\ v # filters.range_slider
             /\ filters' = [filters EXCEPT !.range_slider = v, !.event = <<"range_slider">>]
          \/ /\ v # filters.max_slider
             /\ filters' = [filters EXCEPT !.max_slider = v, !.event = <<"max_slider">>]
    /\ UnchangedButFilters

\* the Apply Range Filter button
ApplyRangeFilter ==
    /\ ~IsNone(filters)
    /\ filters' = [apply_range_filter(filters) EXCEPT !.event = <<"apply_range_filter">>]
    /\ UnchangedButFilters

\* the filter text or the Case Sensitive box changes
EditTextFilter ==
    /\ ~IsNone(filters)
    /\ \E text \in FilterTexts, case_sensitive \in BOOLEAN :
          /\ <<text, case_sensitive>> # <<filters.text_input, filters.case_sensitive>>
          /\ filters' = [filters EXCEPT !.text_input = text,
                                        !.case_sensitive = case_sensitive,
                                        !.event = <<"text_input">>]
    /\ UnchangedButFilters

\* the Apply Text Filter button
ApplyTextFilter ==
    /\ ~IsNone(filters)
    /\ filters' = [apply_text_filter(filters) EXCEPT !.event = <<"apply_text_filter">>]
    /\ UnchangedButFilters

\* the Apply Relationship Filter button
ApplyRelationshipFilter ==
    /\ ~IsNone(filters)
    /\ filters' = [apply_relationship_filter(filters) EXCEPT
                      !.event = <<"apply_relationship_filter">>]
    /\ UnchangedButFilters

\* the Clear All Filters button
ClearAllFilters ==
    /\ ~IsNone(filters)
    /\ filters' = [clear_all_filters(filters) EXCEPT !.event = <<"clear_all_filters">>]
    /\ UnchangedButFilters

NextFilters ==
    \/ OpenFilters \/ SelectNodeTypes \/ MoveSlider \/ ApplyRangeFilter
    \/ EditTextFilter \/ ApplyTextFilter \/ ApplyRelationshipFilter \/ ClearAllFilters

SpecFilters == Init /\ [][NextFilters]_vars

(***************************************************************************)
(* Neo4jConnection (src/connect_neo4j.py) and the connection the           *)
(* application object holds.  neo4j.objects are the Neo4jConnection        *)
(* objects made so far, neo4j.connection the index of the one that         *)
(* Neo4jGraphApp.connection refers to (0 for None), neo4j.call the last    *)
(* call and what it returned.                                              *)
(***************************************************************************)
MaxConnections == 3

\* what driver and server do with one query: the session or the run raises, or
\* the result holds no record, or one
ServerOutcomes == {"raise", "empty", "record"}

\* Neo4jConnection.__init__, connect(): the driver is None when connecting failed
connect(connected) == [kind |-> "conn", driver |-> IF connected THEN "open" ELSE "none"]

\* with self.driver.session() as session: result = session.run(...);
\* [record.data() for record in result]
session_run(server) ==
    IF server = "raise" THEN Raise
    ELSE Return(ListV(IF server = "record" THEN <<StrV(<<"m">>)>> ELSE <<>>))

\* an execute_query without its try
execute_query_untried(c, server) ==
    IF c.driver = "none" THEN Return(None) ELSE session_run(server)

\* Neo4jConnection.execute_query
execute_query(c, server) ==
    IF c.driver = "none" THEN Return(None)
    ELSE LET outcome == session_run(server)
         IN  IF outcome.raised THEN Return(None) ELSE outcome

\* Neo4jConnection.test_connection
test_connection(c, server) ==
    LET test_result == execute_query(c, server)
    IN  IF test_result.raised THEN Raise
        ELSE IF Truthy(test_result.val) THEN Return(TRUE) ELSE Return(FALSE)

\* Neo4jConnection.close
close(c) == IF c.driver # "none" THEN [c EXCEPT !.driver = "closed"] ELSE c

\* Neo4jGraphApp.initialize_connection on the process n: the process afterwards
\* and the value returned
app_initialize_connection(n, password, connected, server) ==
    IF ~password THEN [app |-> n, ok |-> FALSE]
    ELSE LET c == connect(connected)
             made == [n EXCEPT !.objects = Append(@, c), !.connection = Len(n.objects) + 1]
             tested == test_connection(c, server)
         IN  IF c.driver = "none" THEN [app |-> made, ok |-> FALSE]
             ELSE IF tested.raised THEN [app |-> made, ok |-> FALSE]
             ELSE [app |-> made, ok |-> tested.val]

\* if self.connection: self.connection.close()
close_connection(n) ==
    IF n.connection = 0 THEN n
    ELSE [n EXCEPT !.objects[n.connection] = close(@)]

Call(op, driver, server, result) ==
    [op |-> op, driver |-> driver, server |-> server, result |-> result]

UnchangedButNeo4j ==
    UNCHANGED <<connection, graph_data, graph_plotter, graph_renderer, search_interface,
                filter_interface, plotters, docs, widgets, fetched, applied, pattern,
                explorer, evaluated, shown, start, filters>>

\* Neo4jGraphApp(): self.connection = None
NewApp ==
    /\ IsNone(neo4j)
    /\ neo4j' = [kind |-> "app", objects |-> <<>>, connection |-> 0, cleaned |-> FALSE,
                 call |-> Call("__init__", "none", "empty", Return(None))]
    /\ UnchangedButNeo4j

\* create_app(doc) for one more browser session, up to its initialize_connection
\* (nothing after it assigns or closes the connection)
CreateAppSession ==
    /\ ~IsNone(neo4j) /\ ~neo4j.cleaned
    /\ Len(neo4j.objects) < MaxConnections
    /\ \E password \in BOOLEAN, connected \in BOOLEAN, server \in ServerOutcomes :
          LET r == app_initialize_connection(neo4j, password, connected, server)
          IN  neo4j' = [r.app EXCEPT !.call = Call("create_app", "none", server, Return(r.ok))]
    /\ UnchangedButNeo4j

\* export_static_html(): initialize_connection, the export, and the finally
\* clause
ExportStatic ==
    /\ ~IsNone(neo4j) /\ ~neo4j.cleaned
    /\ Len(neo4j.objects) < MaxConnections
    /\ \E password \in BOOLEAN, connected \in BOOLEAN, server \in ServerOutcomes :
          LET r == app_initialize_connection(neo4j, password, connected, server)
          IN  neo4j' = [close_connection(r.app) EXCEPT
                           !.call = Call("export_static_html", "none", server, Return(r.ok))]
    /\ UnchangedButNeo4j

\* connection.execute_query(...): a query on the connection the application
\* holds, in whatever state it is
ExecuteQuery ==
    /\ ~IsNone(neo4j) /\ ~neo4j.cleaned
    /\ neo4j.connection # 0
    /\ \E server \in ServerOutcomes :
          LET c == neo4j.objects[neo4j.connection]
          IN  neo4j' = [neo4j EXCEPT
                           !.call = Call("execute_query", c.driver, server,
                                         execute_query(c, server))]
    /\ UnchangedButNeo4j

\* connection.test_connection()
TestConnection ==
    /\ ~IsNone(neo4j) /\ ~neo4j.cleaned
    /\ neo4j.connection # 0
    /\ \E server \in ServerOutcomes :
          LET c == neo4j.objects[neo4j.connection]
          IN  neo4j' = [neo4j EXCEPT
                           !.call = Call("test_connection", c.driver, server,
                                         test_connection(c, server))]
    /\ UnchangedButNeo4j

\* Neo4jGraphApp.cleanup(), when the process ends
Cleanup ==
    /\ ~IsNone(neo4j) /\ ~neo4j.cleaned
    /\ neo4j' = [close_connection(neo4j) EXCEPT
                    !.cleaned = TRUE,
                    !.call = Call("cleanup", "none", "empty", Return(None))]
    /\ UnchangedButNeo4j

NextConnection ==
    NewApp \/ CreateAppSession \/ ExportStatic \/ ExecuteQuery \/ TestConnection \/ Cleanup

SpecConnection == Init /\ [][NextConnection]_vars

(***************************************************************************)
(* Properties.                                                             *)
(***************************************************************************)
\* the primary type of node n of graph data gd, None when gd has no such node
TypeIn(gd, n) ==
    IF DictHas(gd.nodes, n) THEN StrV(PrimaryType(gd.nodes.val[n])) ELSE None

\* relationship k of gd has the requested type and runs from a type_a node to a
\* type_b node
IsPatternMatch(gd, k, type_a, rel_type, type_b) ==
    /\ gd.relationships.val[k].type = rel_type
    /\ TypeIn(gd, gd.relationships.val[k].start_node) = StrV(type_a)
    /\ TypeIn(gd, gd.relationships.val[k].end_node) = StrV(type_b)

\* relationship k of gd is among the returned matching_relationships
Returned(gd, k, result) ==
    InList(<<gd.relationships.val[k].start_node, gd.relationships.val[k].end_node,
             gd.relationships.val[k]>>, result.matching_relationships)

\* C1: in a pattern search with type_a = type_b, every node of that type is in
\* both partitions and every relationship of the requested type between two
\* nodes of that type is returned.
C1_SameTypePattern ==
    (~IsNone(pattern) /\ pattern.type_a = pattern.type_b) =>
        /\ \A n \in DOMAIN graph_data.nodes.val :
              TypeIn(graph_data, n) = StrV(pattern.type_a) =>
                  /\ InList(n, pattern.matching_nodes_a)
                  /\ InList(n, pattern.matching_nodes_b)
        /\ \A k \in DOMAIN graph_data.relationships.val :
              IsPatternMatch(graph_data, k, pattern.type_a, pattern.rel_type, pattern.type_b)
                  => Returned(graph_data, k, pattern)

\* the ends of the returned relationships
Participants(result) ==
    {result.matching_relationships[i][1] : i \in 1..Len(result.matching_relationships)} \cup
    {result.matching_relationships[i][2] : i \in 1..Len(result.matching_relationships)}

\* C2: the pattern graph holds exactly the nodes that are an end of a returned
\* relationship, and exactly the returned relationships as edges.
C2_PatternGraphOnlyParticipants ==
    ~IsNone(pattern) =>
        /\ DOMAIN pattern.pattern_G.nodes.val = Participants(pattern)
        /\ DOMAIN pattern.pattern_G.edges.val =
              {<<pattern.matching_relationships[i][1], pattern.matching_relationships[i][2]>> :
                  i \in 1..Len(pattern.matching_relationships)}

\* C3: a relationship is returned iff it has the requested type, its start node
\* has primary type type_a and its end node has primary type type_b.
C3_PatternMatchIff ==
    ~IsNone(pattern) =>
        \A k \in DOMAIN graph_data.relationships.val :
            Returned(graph_data, k, pattern) <=>
                IsPatternMatch(graph_data, k, pattern.type_a, pattern.rel_type, pattern.type_b)

\* the nodes shown as matching: those whose colour is gold
GoldNodes(plotter) ==
    {plotter.G.nodes.keys[i] : i \in
        {j \in 1..Len(plotter.graph_renderer.color) : plotter.graph_renderer.color[j] = Gold}}

\* the nodes a search for term matches on its own
MatchSet(G, term) == Range(MatchingNodes(G, term))

\* every search in the list has a text
AllTexts(terms) == \A i \in 1..Len(terms) : terms[i] # <<>>

\* C4: after searches f1, f2 for non-empty texts (no reset between) the nodes
\* shown as matching are the intersection of what each search matches alone.
C4_FiltersComposeByAnd ==
    \A id \in DOMAIN plotters :
        (applied[id] # <<>> /\ AllTexts(applied[id])) =>
            GoldNodes(plotters[id]) =
                {n \in DOMAIN plotters[id].G.nodes.val :
                    \A i \in 1..Len(applied[id]) : n \in MatchSet(plotters[id].G, applied[id][i])}

RECURSIVE ApplySearches(_, _)
ApplySearches(plotter, terms) ==
    IF terms = <<>> THEN plotter
    ELSE ApplySearches(highlight_nodes(plotter, Head(terms)), Tail(terms))

\* C5: searching for text f1 then text f2 shows the same matching nodes as
\* searching f2 then f1.
C5_OrderIndependent ==
    \A id \in DOMAIN plotters :
        (Len(applied[id]) = 2 /\ AllTexts(applied[id])) =>
            GoldNodes(plotters[id]) =
                GoldNodes(ApplySearches(reset_node_colors(plotters[id]),
                                        <<applied[id][2], applied[id][1]>>))

\* C6: every end of an edge of a built graph is the id of a node of the graph
\* data it was built from, and the graph has no other node.
C6_NoDanglingEdgeBuilt ==
    \A id \in DOMAIN plotters :
        /\ \A e \in DOMAIN plotters[id].G.edges.val :
              /\ DictHas(plotters[id].graph_data.nodes, e[1])
              /\ DictHas(plotters[id].graph_data.nodes, e[2])
        /\ DOMAIN plotters[id].G.nodes.val \subseteq DOMAIN plotters[id].graph_data.nodes.val

\* no two records of the list share an id
DistinctIds(recs) == \A i, j \in 1..Len(recs) : recs[i].id = recs[j].id => i = j

\* C7: a payload that was loaded has no two node records and no two
\* relationship records with the same id.
C7_DuplicateIdsRejected ==
    ~IsNone(fetched) => DistinctIds(fetched.nodes) /\ DistinctIds(fetched.relationships)

\* C8: after a load_data call that failed, graph_data is still the graph of the
\* last payload that was loaded.
C8_FailedLoadKeepsGraph ==
    (docs # <<>> /\ docs[Len(docs)] = "DataLoadingError" /\ ~IsNone(fetched)) =>
        /\ ~IsNone(graph_data)
        /\ graph_data.nodes = ProcessNodes(fetched.nodes, EmptyDict)
        /\ graph_data.relationships = ProcessRels(fetched.relationships, EmptyDict)

\* C9: while a document with controls exists (a callback can run), graph_data,
\* graph_plotter, graph_renderer, search_interface and filter_interface belong
\* to one graph generation.
C9_SameGeneration ==
    ~IsNone(widgets) =>
        /\ ~IsNone(graph_data)
        /\ graph_plotter = graph_data.gen
        /\ graph_renderer = graph_data.gen
        /\ ~IsNone(search_interface) /\ search_interface.gen = graph_data.gen
        /\ ~IsNone(filter_interface) /\ filter_interface.gen = graph_data.gen

\* the payload has no duplicate ids and no relationship to or from a missing node
ValidPayload(p) ==
    /\ DistinctIds(p.nodes) /\ DistinctIds(p.relationships)
    /\ \A i \in 1..Len(p.relationships) :
          /\ \E j \in 1..Len(p.nodes) : p.nodes[j].id = p.relationships[i].start_node
          /\ \E j \in 1..Len(p.nodes) : p.nodes[j].id = p.relationships[i].end_node

\* C10: after a start-up that loaded a valid payload the graph is built, every
\* input node id is a node of it, and every input relationship is an edge of
\* its own with its own type.
C10_ValidPayloadBuilt ==
    (Len(docs) = 1 /\ ~IsNone(fetched) /\ ValidPayload(fetched)) =>
        /\ graph_plotter # 0
        /\ \A i \in 1..Len(fetched.nodes) :
              DictHas(plotters[graph_plotter].G.nodes, fetched.nodes[i].id)
        /\ Len(plotters[graph_plotter].G.edges.keys) = Len(fetched.relationships)
        /\ \A i \in 1..Len(fetched.relationships) :
              LET r == fetched.relationships[i]
                  e == <<r.start_node, r.end_node>>
              IN  /\ DictHas(plotters[graph_plotter].G.edges, e)
                  /\ plotters[graph_plotter].G.edges.val[e]["type"] = StrV(r.type)

\* C11: for every node of the loaded data, the type used for styling (the type
\* attribute of the built graph, and the colour drawn from it) is that of the
\* node's first label, or of "Unknown" without labels.
C11_NodeTypeIsFirstLabel ==
    \A id \in DOMAIN plotters :
        \A i \in 1..Len(plotters[id].G.nodes.keys) :
            LET n == plotters[id].G.nodes.keys[i]
                gd == plotters[id].graph_data
            IN  DictHas(gd.nodes, n) =>
                    /\ NodeTypeOf(plotters[id].G, n) = StrV(PrimaryType(gd.nodes.val[n]))
                    /\ plotters[id].graph_renderer.color # <<>> =>
                          NodeColors(plotters[id].G)[i] =
                              TypeColor(StrV(PrimaryType(gd.nodes.val[n])))

\* what a search, a reset or a property filter must leave alone: graph_data, the
\* graph and graph data of every plotter, the pattern data and pattern graph
GraphsKept ==
    /\ graph_data' = graph_data
    /\ DOMAIN plotters' = DOMAIN plotters
    /\ \A id \in DOMAIN plotters :
          /\ plotters'[id].G = plotters[id].G
          /\ plotters'[id].graph_data = plotters[id].graph_data
    /\ IsNone(explorer') = IsNone(explorer)
    /\ ~IsNone(explorer) =>
          /\ explorer'.pattern_data = explorer.pattern_data
          /\ explorer'.pattern_graph = explorer.pattern_graph

\* the steps of SearchNodes, ResetView and ApplyFilter: no session is opened
\* (docs is kept), and the explorer is kept or is one a filter was applied to
\* (OpenExplorer makes one with no filter)
SearchOrFilterStep ==
    /\ docs' = docs
    /\ \/ explorer' = explorer
       \/ ~IsNone(explorer') /\ ~IsNone(explorer'.filter)

\* C12: every step of search_nodes (highlight_nodes), reset_view
\* (reset_node_colors) and _apply_filter leaves the nodes, edges and attributes
\* of the graphs and the graph data as they were.
C12_SearchAndFilterKeepGraph == [][SearchOrFilterStep => GraphsKept]_vars

\* a search has highlighted a node and a property filter has matched a node
C12_Witness ==
    /\ \E id \in DOMAIN plotters : applied[id] # <<>> /\ GoldNodes(plotters[id]) # {}
    /\ ~IsNone(explorer)
    /\ ~IsNone(explorer.filter)
    /\ \E i \in 1..Len(explorer.color) : explorer.color[i] = Gold

\* the condition asks for a numeric comparison: ">" or "<" in front, no "=" and
\* no "contains" in it
NumericComparison(filter_condition) ==
    LET fc == Lower(Strip(filter_condition))
    IN  /\ fc # <<>>
        /\ Head(fc) \in {">", "<"}
        /\ ~Contains(fc, <<"=">>)
        /\ ~Contains(fc, ContainsWord)

\* the value or the threshold of the numeric comparison is no number
NotComparable(value, filter_condition) ==
    \/ PyFloat(value) = Failed
    \/ ParseFloat(Tail(Lower(Strip(filter_condition)))) = Failed

\* C13: a call of _evaluate_filter ends by returning a bool, never by an
\* exception, and a numeric comparison whose value or threshold is no number
\* returns False.
C13_EvaluateNeverRaises ==
    ~IsNone(evaluated) =>
        /\ ~evaluated.outcome.raised
        /\ evaluated.outcome.val \in BOOLEAN
        /\ (/\ NumericComparison(evaluated.filter_condition)
            /\ NotComparable(evaluated.value, evaluated.filter_condition))
              => evaluated.outcome = Return(FALSE)

\* a numeric comparison was evaluated on a value or threshold that is no number
C13_Witness ==
    /\ ~IsNone(evaluated)
    /\ NumericComparison(evaluated.filter_condition)
    /\ NotComparable(evaluated.value, evaluated.filter_condition)
    /\ evaluated.value.kind \in {"list", "none", "str"}

\* the properties of the i-th node of the explorer's pattern graph
ExplorerProps(i) ==
    explorer.pattern_data.nodes.val[explorer.pattern_graph.nodes.keys[i]].properties

\* the i-th node has no value for the property of the last filter
LacksFiltered(i) ==
    \/ explorer.filter.property_name \notin DOMAIN ExplorerProps(i)
    \/ IsNone(ExplorerProps(i)[explorer.filter.property_name])

\* C14: after a property filter, whatever its condition, the filter has not
\* raised and no node without the filtered property is shown as a match.
C14_MissingPropertyNeverMatches ==
    (~IsNone(explorer) /\ ~IsNone(explorer.filter)) =>
        /\ ~explorer.filter.raised
        /\ \A i \in 1..Len(explorer.color) : LacksFiltered(i) => explorer.color[i] = Gray

\* the empty condition was applied to a type with a node that has the property
\* (shown as a match) and a node that lacks it
C14_Witness ==
    /\ ~IsNone(explorer)
    /\ ~IsNone(explorer.filter)
    /\ explorer.filter.filter_condition = <<>>
    /\ \E i, j \in 1..Len(explorer.color) :
          /\ explorer.color[i] = Gold
          /\ LacksFiltered(j)
          /\ PrimaryType(explorer.pattern_data.nodes.val[explorer.pattern_graph.nodes.keys[j]])
                = explorer.filter.node_type

\* the operand of a condition: the text after its operator word, trimmed and
\* without quotes
Operand(filter_condition, word) ==
    StripChars(Strip(SplitSecond(Lower(Strip(filter_condition)), word)), Quotes)

ContainsCondition(filter_condition) ==
    Contains(Lower(Strip(filter_condition)), ContainsWord)

\* C15: 'contains' on a stored Integer, Float or Boolean is a substring test
\* on the canonical string form of the value.
C15_ContainsOnCanonicalText ==
    (/\ ~IsNone(evaluated)
     /\ ContainsCondition(evaluated.filter_condition)
     /\ evaluated.value.kind \in {"int", "float", "bool"}) =>
        evaluated.outcome =
            Return(Contains(Lower(PyStr(evaluated.value)),
                            Operand(evaluated.filter_condition, ContainsWord)))

EqualityCondition(filter_condition) ==
    /\ ~ContainsCondition(filter_condition)
    /\ StartsWith(Lower(Strip(filter_condition)), <<"=">>)

\* the operand of an equality condition
EqualityOperand(filter_condition) ==
    StripChars(Strip(SelectSeq(Lower(Strip(filter_condition)), LAMBDA c : c # "=")), Quotes)

\* C16: equality with a numeric operand (integer or decimal) holds iff value
\* and operand are equal as numbers; with a text operand iff they are equal
\* as text without regard to case.
C16_EqualityByKind ==
    (/\ ~IsNone(evaluated)
     /\ EqualityCondition(evaluated.filter_condition)
     /\ evaluated.value.kind \in {"str", "int", "float"}) =>
        IF ParseFloat(EqualityOperand(evaluated.filter_condition)) # Failed
        THEN evaluated.outcome =
                Return(/\ PyFloat(evaluated.value) # Failed
                       /\ PyFloat(evaluated.value).centi =
                             ParseFloat(EqualityOperand(evaluated.filter_condition)).centi)
        ELSE evaluated.outcome =
                Return(Lower(PyStr(evaluated.value)) =
                         Lower(EqualityOperand(evaluated.filter_condition)))

\* two characters are the same letter in any case, or the same character
SameLetter(a, b) ==
    \/ a = b
    \/ \E k \in 1..Len(UpperChars) : {a, b} = {UpperChars[k], LowerChars[k]}

\* t occurs in v when case is ignored
OccursIgnoringCase(v, t) ==
    \E i \in 0..(Len(v) - Len(t)) : \A k \in 1..Len(t) : SameLetter(v[i + k], t[k])

\* the session's plotter shows a search for a text
Searched ==
    /\ ~IsNone(widgets)
    /\ widgets.search_value # <<>>
    /\ ~IsNone(plotters[widgets.plotter].graph_renderer)

\* C17: 'contains t' on a text value v, and the node search for t, match iff
\* t occurs in v when case is ignored.
C17_ContainsIgnoresCase ==
    /\ (/\ ~IsNone(evaluated)
        /\ ContainsCondition(evaluated.filter_condition)
        /\ evaluated.value.kind = "str") =>
            evaluated.outcome =
                Return(OccursIgnoringCase(evaluated.value.chars,
                                          Operand(evaluated.filter_condition, ContainsWord)))
    /\ Searched =>
          LET plotter == plotters[widgets.plotter]
          IN  \A i \in 1..Len(plotter.G.nodes.keys) :
                plotter.graph_renderer.color[i] = Gold <=>
                    \E k \in DOMAIN plotter.G.nodes.val[plotter.G.nodes.keys[i]] :
                      LET v == plotter.G.nodes.val[plotter.G.nodes.keys[i]][k]
                      IN  /\ Searchable(v)
                          /\ OccursIgnoringCase(PyStr(v), widgets.search_value)

\* "contains dra" was evaluated on "Drama", and a search in another case than
\* the stored text has coloured a node
C17_Witness ==
    /\ ~IsNone(evaluated)
    /\ evaluated.value = StrV(Drama)
    /\ evaluated.filter_condition = <<"c", "o", "n", "t", "a", "i", "n", "s", " ", "d", "r", "a">>
    /\ evaluated.outcome = Return(TRUE)
    /\ Searched
    /\ widgets.search_value = <<"M", "O", "V">>
    /\ \E i \in 1..Len(plotters[widgets.plotter].G.nodes.keys) :
          plotters[widgets.plotter].graph_renderer.color[i] = Gold

\* the name keys of a node that hold a text, in the order name, title,
\* Series_Title, Name
TextNames(node_data) ==
    SelectSeq(NameFields, LAMBDA f : /\ f \in ItemKeys(node_data)
                                     /\ ItemGet(node_data, f).kind = "str")

\* no name key of the node holds the empty text
NoEmptyName(node_data) ==
    \A f \in ItemKeys(node_data) \cap Range(NameFields) : ItemGet(node_data, f) # StrV(<<>>)

\* C18: the display name of a node is the value of the first of the keys name,
\* title, Series_Title, Name that holds a text, and "<type>_<id-prefix>" when
\* none does, whatever else (numbers, zero) those keys hold.
C18_NameIsFirstText ==
    (~IsNone(shown) /\ NoEmptyName(shown.node_data)) =>
        shown.name =
            IF TextNames(shown.node_data) # <<>>
            THEN ItemGet(shown.node_data, Head(TextNames(shown.node_data))).chars
            ELSE ItemGet(shown.node_data, TypeKey).chars \o <<"_">> \o
                 Take(LastSegment(shown.node_id), 8)

\* the summary of the displayable properties: at most five of them, a text
\* shortened by Shorten, and the number of the others
Summary(node_data, Shorten(_)) ==
    LET props == RelevantProps(node_data)
        n == Len(props)
        listed == [i \in 1..(IF n < 5 THEN n ELSE 5) |->
                      props[i][1] \o <<":", " ">> \o
                      (IF props[i][2].kind = "str" THEN Shorten(props[i][2].chars)
                       ELSE PyStr(props[i][2]))]
    IN  IF n = 0 THEN NoProperties
        ELSE Join(listed, <<";", " ">>) \o
             (IF n > 5 THEN <<" ", ".", ".", ".", " ", "(", "+">> \o IntToChars(n - 5) \o <<" ", "m", "o", "r", "e", ")">> ELSE <<>>)

\* the first 50 characters of a text of more than 50 characters
FirstChars(text) == IF Len(text) > 50 THEN SubSeq(text, 1, 50) ELSE text

\* the first 50 characters followed by "..."
FirstCharsMarked(text) ==
    IF Len(text) > 50 THEN SubSeq(text, 1, 50) \o <<".", ".", ".">> ELSE text

\* C19 as stated: the summary lists min(n, 5) properties, ends with
\* "(+N more)", N = n - 5, iff n > 5, shows a text of more than 50 characters
\* as its first 50 characters, and is "No additional properties" for n = 0.
C19_SummaryFirstFifty ==
    ~IsNone(shown) => shown.properties = Summary(shown.node_data, FirstChars)

\* C19, amended: as stated, but a text of more than 50 characters is shown as
\* its first 50 characters followed by "...".
C19_SummaryCapped ==
    ~IsNone(shown) => shown.properties = Summary(shown.node_data, FirstCharsMarked)

\* a node with more than five displayable properties, a long text among the
\* listed ones
C19_Witness ==
    /\ ~IsNone(shown)
    /\ Len(RelevantProps(shown.node_data)) > 5
    /\ \E i \in 1..5 : RelevantProps(shown.node_data)[i][2] = StrV(LongText)
    /\ Contains(shown.properties, <<"(", "+", "2", " ", "m", "o", "r", "e", ")">>)

RECURSIVE SumOver(_, _)
\* the sum of the counts of histogram f over the types in S
SumOver(f, S) ==
    IF S = {} THEN 0
    ELSE LET t == CHOOSE x \in S : TRUE IN f[t] + SumOver(f, S \ {t})

\* C20: the statistics of a loaded graph hold a node-type histogram that sums
\* to total_nodes and a relationship-type histogram that sums to total_edges,
\* the numbers of nodes and of relationships of the loaded graph.
C20_HistogramsSumToTotals ==
    (Len(docs) = 1 /\ ~IsNone(fetched) /\ ValidPayload(fetched) /\ graph_plotter # 0) =>
        LET stats == get_graph_statistics(plotters[graph_plotter].G)
        IN  /\ {"total_nodes", "total_edges", "node_types", "edge_types"} \subseteq stats.keys
            /\ SumOver(stats.node_types, DOMAIN stats.node_types) = stats.total_nodes
            /\ SumOver(stats.edge_types, DOMAIN stats.edge_types) = stats.total_edges
            /\ stats.total_nodes = Len(fetched.nodes)
            /\ stats.total_edges = Len(fetched.relationships)

\* C21: a pattern search that matches no relationship ends with an empty
\* result: no relationship and no node is put into a pattern view, and the
\* loaded graph data are as they were.
C21_NoMatchGivesEmptyResult ==
    (~IsNone(pattern) /\ pattern.matching_relationships = <<>>) =>
        /\ pattern.pattern_G.edges.keys = <<>>
        /\ pattern.pattern_G.nodes.keys = <<>>

\* C22: when no search is applied to the session's plotter (it is new, or Reset
\* View and the callbacks it triggers have run), every node has the colour of
\* its type and no node is gold.
C22_ResetRestoresColours ==
    (/\ ~IsNone(widgets)
     /\ applied[widgets.plotter] = <<>>
     /\ ~IsNone(plotters[widgets.plotter].graph_renderer)) =>
        /\ plotters[widgets.plotter].graph_renderer.color =
              NodeColors(plotters[widgets.plotter].G)
        /\ GoldNodes(plotters[widgets.plotter]) = {}

\* what create_app adds to its document: the layout or one of the error messages
Roots == {"layout", "ConnectionError", "DataLoadingError", "VisualizationError", "LayoutError"}

\* C23: every create_app call has added exactly one root to its document, the
\* application layout or the error message of the step that failed.
C23_OneRootPerSession ==
    \A i \in 1..Len(docs) : docs[i] \in Roots

\* C24: a start.main that was given NEO4J_URI, NEO4J_USER and NEO4J_PASSWORD
\* and a usable port has entered run_server when it ends; one that lacks any
\* of the three has exited with status 1 without an application object; and a
\* process that made the application object has run cleanup when it ends.
C24_ProductionStartup ==
    (~IsNone(start) /\ start.pc = "exited") =>
        /\ (validate_environment(start.env) /\ start.env["PORT"] # "malformed")
              => start.entered
        /\ ~validate_environment(start.env) => (start.status = "1" /\ ~start.app)
        /\ start.app => start.cleaned

\* a condition that is a bare text: not empty, without the word contains and
\* without an operator
BareText(filter_condition) ==
    /\ Strip(filter_condition) # <<>>
    /\ ~ContainsCondition(filter_condition)
    /\ \A i \in 1..Len(filter_condition) : filter_condition[i] \notin {"=", ">", "<"}

\* C25: with a bare text as the condition, a value that is this text matches
\* and a value that is a number does not.
C25_BareTextSelectsText ==
    (~IsNone(evaluated) /\ BareText(evaluated.filter_condition)) =>
        /\ (/\ evaluated.value.kind = "str"
            /\ Lower(evaluated.value.chars) = Lower(Strip(evaluated.filter_condition)))
              => evaluated.outcome = Return(TRUE)
        /\ evaluated.value.kind \in {"int", "float"} => evaluated.outcome = Return(FALSE)

\* the comparison a condition writes: its operator, None for other conditions
Operator(filter_condition) ==
    LET fc == Strip(filter_condition)
    IN  IF StartsWith(fc, <<">", "=">>) THEN ">="
        ELSE IF StartsWith(fc, <<"<", "=">>) THEN "<="
        ELSE IF StartsWith(fc, <<">">>) THEN ">"
        ELSE IF StartsWith(fc, <<"<">>) THEN "<"
        ELSE "none"

\* the number N of a comparison, Failed when the text after the operator is no
\* number
Threshold(filter_condition) ==
    LET fc == Strip(filter_condition)
    IN  ParseFloat(Strip(SubSeq(fc, IF Operator(fc) \in {">=", "<="} THEN 3 ELSE 2, Len(fc))))

\* C26: on a numeric value v, '> N' matches iff v > N, '< N' iff v < N,
\* '>= N' iff v >= N and '<= N' iff v <= N.
C26_ComparisonByOperator ==
    (/\ ~IsNone(evaluated)
     /\ evaluated.value.kind \in {"int", "float"}
     /\ Operator(evaluated.filter_condition) # "none"
     /\ Threshold(evaluated.filter_condition) # Failed) =>
        LET v == PyFloat(evaluated.value).centi
            N == Threshold(evaluated.filter_condition).centi
            op == Operator(evaluated.filter_condition)
        IN  evaluated.outcome =
                Return(CASE op = ">" -> v > N
                         [] op = "<" -> v < N
                         [] op = ">=" -> v >= N
                         [] op = "<=" -> v <= N)

C28_RangeOrdered ==
    ~IsNone(filters) =>
        \A k \in DOMAIN filters.active_filters :
            k[1] = "range_" => filters.active_filters[k][1] <= filters.active_filters[k][2]

\* C29: execute_query never raises and returns a list of records or None, None
\* whenever the driver is None or the query raised; test_connection returns
\* True only when the query returned a record.
C29_ExecuteQueryNeverRaises ==
    ~IsNone(neo4j) =>
        LET c == neo4j.call
        IN  /\ c.op = "execute_query" =>
                 /\ ~c.result.raised
                 /\ c.result.val.kind \in {"none", "list"}
                 /\ (c.driver = "none" \/ c.server = "raise") => IsNone(c.result.val)
            /\ c.op = "test_connection" =>
                 /\ ~c.result.raised
                 /\ c.result.val = TRUE => (c.driver # "none" /\ c.server = "record")

\* a query on a closed connection raised inside execute_query, which returned None
C29_Witness ==
    /\ ~IsNone(neo4j)
    /\ neo4j.call.op = "execute_query"
    /\ neo4j.call.driver = "closed"
    /\ neo4j.call.server = "raise"
    /\ ~neo4j.call.result.raised

\* C30: once cleanup, or the final step of export_static_html, has run, none of
\* the connections that initialize_connection opened is still open.
C30_NoConnectionLeaked ==
    (~IsNone(neo4j) /\ neo4j.call.op \in {"cleanup", "export_static_html"}) =>
        \A i \in DOMAIN neo4j.objects : neo4j.objects[i].driver # "open"

====
